---- MODULE Spec2Model ----
(***************************************************************************)
(* Model of the WiFi record store (src/Database.py, class WiFiDB) and of   *)
(* the ingestion controller (src/controler.py, class Controller).          *)
(*                                                                         *)
(* Python values are tagged records, so that a value of the wrong type is  *)
(* a value the model can hold:                                             *)
(*   str   [t |-> "str",  v |-> <<"a","b">>]   a tuple of characters      *)
(*   int   [t |-> "int",  q |-> n \div 1000, r |-> n % 1000]               *)
(*   bool  [t |-> "bool", b |-> TRUE]          (bool is a subclass of int) *)
(*   float [t |-> "float", f |-> "nan"]                                    *)
(*   None  [t |-> "none"]                                                  *)
(* An int is kept as thousands and units because the timestamps of the     *)
(* program (epoch milliseconds, above 10^12) exceed the integers of TLC.   *)
(* A dict is a function whose DOMAIN is the set of its keys.               *)
(***************************************************************************)
EXTENDS Integers, Sequences, FiniteSets, TLC

\* table: the committed rows of wifi_networks; self_data: Controller.data;
\* op: the last call, its arguments and its result; chat: the FSMContext of
\* a chat and the answers sent to it; sessions: the calls of create that are
\* under way; columns: the columns of wifi_networks, none while the table
\* does not exist; dbrows: the rows of the table records of database.py;
\* csv: the rows of table.csv after its header
VARIABLES table, self_data, op, chat, sessions, columns, dbrows, csv

vars == <<table, self_data, op, chat, sessions, columns, dbrows, csv>>

----------------------------------------------------------------------------
(* Python values *)

None == [t |-> "none"]

StrV(s) == [t |-> "str", v |-> s]

IntV(n) == [t |-> "int", q |-> n \div 1000, r |-> n % 1000]

IntQR(q, r) == [t |-> "int", q |-> q, r |-> r]

BoolV(b) == [t |-> "bool", b |-> b]

NaN == [t |-> "float", f |-> "nan"]

\* the float 0.5
Half == [t |-> "float", f |-> "0.5"]

\* isinstance(x, str)
IsStr(x) == x.t = "str"

\* isinstance(x, int): True for bool as well
IsInt(x) == x.t \in {"int", "bool"}

\* the integer a bool stands for; what sqlite3 binds for it
AsInt(x) == IF x.t = "bool" THEN IntV(IF x.b THEN 1 ELSE 0) ELSE x

\* a < b for int values
IntLt(a, b) == \/ AsInt(a).q < AsInt(b).q
               \/ AsInt(a).q = AsInt(b).q /\ AsInt(a).r < AsInt(b).r

IntLe(a, b) == IntLt(a, b) \/ AsInt(a) = AsInt(b)

\* Python ==
PyEq(a, b) == IF IsInt(a) /\ IsInt(b) THEN AsInt(a) = AsInt(b) ELSE a = b

\* dict.get(key)
Get(data, key) == IF key \in DOMAIN data THEN data[key] ELSE None

\* the dict d after d[key] = value
With(d, key, value) ==
    [k \in DOMAIN d \cup {key} |-> IF k = key THEN value ELSE d[k]]

\* d without key
Without(d, key) == [k \in DOMAIN d \ {key} |-> d[k]]

----------------------------------------------------------------------------
(* Schema *)

required_keys ==
    <<"bssid", "frequency", "rssi", "ssid", "timestamp", "channel_bandwidth", "capabilities">>

optional_string_fields == <<"password", "dns_server", "gateway", "my_ip">>

optional_int_fields == <<"signal_level", "pavilion_number", "floor">>

Range(s) == {s[i] : i \in 1..Len(s)}

RequiredCols == Range(required_keys)

OptionalCols == Range(optional_string_fields) \cup Range(optional_int_fields)

\* the columns of CREATE TABLE wifi_networks
Columns == RequiredCols \cup OptionalCols

NonKeyCols == Columns \ {"bssid"}

----------------------------------------------------------------------------
(* checker *)

HexChars ==
    {"0", "1", "2", "3", "4", "5", "6", "7", "8", "9",
     "a", "b", "c", "d", "e", "f", "A", "B", "C", "D", "E", "F"}

\* re.match(r'^([0-9a-fA-F]{2}:){5}[0-9a-fA-F]{2}$', s): the pattern is
\* anchored at the start, and $ matches at the end of the string or just
\* before a newline that ends the string.
bssid_pattern(s) ==
    /\ Len(s) >= 17
    /\ \A i \in 1..17 : IF i % 3 = 0 THEN s[i] = ":" ELSE s[i] \in HexChars
    /\ \/ Len(s) = 17
       \/ Len(s) = 18 /\ s[18] = "\n"

Ok == [ok |-> TRUE, kind |-> "ok", field |-> ""]

Reject(kind, field) == [ok |-> FALSE, kind |-> kind, field |-> field]

\* the first element of the list fields (a sequence) that satisfies P
FirstIdx(S) == CHOOSE i \in S : \A j \in S : i <= j

checker(data) ==
    LET missing == {i \in 1..Len(required_keys) : required_keys[i] \notin DOMAIN data}
        badStr  == {i \in 1..Len(optional_string_fields) :
                       /\ optional_string_fields[i] \in DOMAIN data
                       /\ ~IsStr(data[optional_string_fields[i]])}
        badInt  == {i \in 1..Len(optional_int_fields) :
                       /\ optional_int_fields[i] \in DOMAIN data
                       /\ ~IsInt(data[optional_int_fields[i]])}
    IN  IF missing # {} THEN Reject("missing", required_keys[FirstIdx(missing)])
        ELSE IF badStr # {} THEN Reject("type", optional_string_fields[FirstIdx(badStr)])
        ELSE IF badInt # {} THEN Reject("type", optional_int_fields[FirstIdx(badInt)])
        \* re.match raises TypeError when its argument is not a string
        ELSE IF ~IsStr(data["bssid"]) THEN Reject("TypeError", "bssid")
        ELSE IF ~bssid_pattern(data["bssid"].v) THEN Reject("value", "bssid")
        ELSE IF ~IsInt(data["frequency"]) \/ IntLe(data["frequency"], IntV(0))
            THEN Reject("value", "frequency")
        ELSE IF \/ ~IsInt(data["rssi"])
                \/ ~(IntLe(IntV(-100), data["rssi"]) /\ IntLe(data["rssi"], IntV(0)))
            THEN Reject("value", "rssi")
        ELSE IF ~IsInt(data["timestamp"]) \/ IntLt(data["timestamp"], IntV(0))
            THEN Reject("value", "timestamp")
        ELSE IF ~IsStr(data["ssid"]) \/ Len(data["ssid"].v) = 0
            THEN Reject("value", "ssid")
        ELSE IF \/ ~IsStr(data["channel_bandwidth"])
                \/ data["channel_bandwidth"].v \notin
                       {<<"2", "0">>, <<"4", "0">>, <<"8", "0">>, <<"1", "6", "0">>}
            THEN Reject("value", "channel_bandwidth")
        ELSE IF ~IsStr(data["capabilities"]) THEN Reject("value", "capabilities")
        ELSE Ok

----------------------------------------------------------------------------
(* WiFiDB: the table wifi_networks is the sequence of its rows in rowid     *)
(* order; a row is a function from Columns to values.                       *)

\* what sqlite3 binds for a Python value: a bool is bound as the integer
BindValue(x) == AsInt(x)

\* INSERT that stores the empty sentinel of Stroka_Db for an optional column
\* the record omits
InsertValues_Sentinel(data) ==
    [c \in Columns |->
        IF c \in DOMAIN data THEN BindValue(data[c])
        ELSE IF c \in Range(optional_string_fields) THEN StrV(<<" ">>) ELSE IntV(0)]

\* the VALUES (...) tuple of the INSERT: data[...] for the required columns,
\* data.get(...) for the optional ones
InsertValues(data) == [c \in Columns |-> BindValue(Get(data, c))]

\* UPDATE that also sets bssid from the record
UpdateValues_Rekey(row, data) == [c \in Columns |-> BindValue(Get(data, c))]

\* UPDATE that keeps the stored value of an optional column the record omits
UpdateValues_Coalesce(row, data) ==
    [c \in Columns |->
        IF c = "bssid" \/ (c \in OptionalCols /\ c \notin DOMAIN data)
        THEN row[c] ELSE BindValue(Get(data, c))]

\* the SET list of the UPDATE: every column but bssid
UpdateValues(row, data) ==
    [c \in Columns |-> IF c = "bssid" THEN row[c] ELSE BindValue(Get(data, c))]

\* a table created without the primary key
PrimaryKeyViolated_NoKey(tbl, key) == FALSE

\* bssid TEXT PRIMARY KEY: the INSERT raises sqlite3.IntegrityError when a
\* row with the same key is stored
PrimaryKeyViolated(tbl, key) == \E i \in 1..Len(tbl) : tbl[i]["bssid"] = key

\* WHERE bssid = ?
Matches(tbl, bssid) == {i \in 1..Len(tbl) : tbl[i]["bssid"] = StrV(bssid)}

\* read(bssid): "if bssid:" is false for None and for the empty string, and
\* then every row is selected
read(tbl, bssid) ==
    IF bssid # None /\ Len(bssid.v) > 0
    THEN SelectSeq(tbl, LAMBDA row : row["bssid"] = bssid)
    ELSE tbl

\* the result of a call: what it returns (or raises) and the message it prints
Result(ret, msg) == [ret |-> ret, msg |-> msg]

\* create(data): the table afterwards and the result
create(tbl, data) ==
    LET validation_result == checker(data)
    IN  IF validation_result.kind = "TypeError"
            THEN [table |-> tbl, res |-> Result("TypeError", "none")]
        ELSE IF ~validation_result.ok
            THEN [table |-> tbl, res |-> Result("False", "validation")]
        ELSE IF PrimaryKeyViolated(tbl, data["bssid"])
            THEN [table |-> tbl, res |-> Result("False", "conflict")]
        ELSE [table |-> Append(tbl, InsertValues(data)), res |-> Result("True", "none")]

\* update that does not call checker
update_Unchecked(tbl, bssid, data) ==
    IF Len(read(tbl, StrV(bssid))) = 0
    THEN [table |-> tbl, res |-> Result("False", "not_found")]
    ELSE [table |-> [i \in 1..Len(tbl) |->
                        IF i \in Matches(tbl, bssid) THEN UpdateValues(tbl[i], data)
                        ELSE tbl[i]],
          res |-> Result(IF Matches(tbl, bssid) # {} THEN "True" ELSE "False", "none")]

\* update(bssid, data)
update(tbl, bssid, data) ==
    LET validation_result == checker(data)
        existing == read(tbl, StrV(bssid))
        hit == Matches(tbl, bssid)
    IN  IF validation_result.kind = "TypeError"
            THEN [table |-> tbl, res |-> Result("TypeError", "none")]
        ELSE IF ~validation_result.ok
            THEN [table |-> tbl, res |-> Result("False", "validation")]
        ELSE IF Len(existing) = 0
            THEN [table |-> tbl, res |-> Result("False", "not_found")]
        ELSE [table |-> [i \in 1..Len(tbl) |->
                            IF i \in hit THEN UpdateValues(tbl[i], data) ELSE tbl[i]],
              \* return cursor.rowcount > 0
              res |-> Result(IF hit # {} THEN "True" ELSE "False", "none")]

\* DELETE without its WHERE clause
delete_All(tbl, bssid) ==
    [table |-> <<>>,
     res |-> Result(IF Len(tbl) > 0 THEN "True" ELSE "False", "none")]

\* delete(bssid)
delete(tbl, bssid) ==
    LET hit == Matches(tbl, bssid)
    IN  [table |-> SelectSeq(tbl, LAMBDA row : row["bssid"] # StrV(bssid)),
         res |-> Result(IF hit # {} THEN "True" ELSE "False", "none")]

----------------------------------------------------------------------------
(* Conversions between Python values *)

DigitChars == <<"0", "1", "2", "3", "4", "5", "6", "7", "8", "9">>

DigitVal(c) == (CHOOSE i \in 1..Len(DigitChars) : DigitChars[i] = c) - 1

RECURSIVE StrToNat(_)
StrToNat(s) ==
    IF Len(s) = 0 THEN 0
    ELSE 10 * StrToNat(SubSeq(s, 1, Len(s) - 1)) + DigitVal(s[Len(s)])

IsDigits(s) == Len(s) > 0 /\ \A i \in 1..Len(s) : s[i] \in Range(DigitChars)

\* the strings int() accepts: an optional sign and decimal digits
IsIntLiteral(s) ==
    \/ IsDigits(s)
    \/ Len(s) > 1 /\ s[1] \in {"-", "+"} /\ IsDigits(Tail(s))

StrToInt(s) ==
    IF s[1] = "-" THEN IntV(0 - StrToNat(Tail(s)))
    ELSE IF s[1] = "+" THEN IntV(StrToNat(Tail(s)))
    ELSE IntV(StrToNat(s))

RECURSIVE NatToStr(_)
NatToStr(n) ==
    IF n < 10 THEN <<DigitChars[n + 1]>>
    ELSE NatToStr(n \div 10) \o <<DigitChars[(n % 10) + 1]>>

\* the decimal digits of the int x = x.q * 1000 + x.r
IntToStr(x) ==
    IF x.q = 0 THEN NatToStr(x.r)
    ELSE IF x.q > 0
        THEN NatToStr(x.q) \o <<DigitChars[(x.r \div 100) + 1],
                                DigitChars[((x.r \div 10) % 10) + 1],
                                DigitChars[(x.r % 10) + 1]>>
    ELSE <<"-">> \o NatToStr(0 - (x.q * 1000 + x.r))

\* int(x): the int, or the exception it raises
PyInt(x) ==
    CASE x.t = "int" -> [exc |-> "none", val |-> x]
      [] x.t = "bool" -> [exc |-> "none", val |-> AsInt(x)]
      [] x.t = "str" -> IF IsIntLiteral(x.v) THEN [exc |-> "none", val |-> StrToInt(x.v)]
                        ELSE [exc |-> "ValueError", val |-> None]
      \* int(float('nan')) raises; int(0.5) is 0
      [] x.t = "float" -> IF x = NaN THEN [exc |-> "ValueError", val |-> None]
                          ELSE [exc |-> "none", val |-> IntV(0)]
      [] OTHER -> [exc |-> "TypeError", val |-> None]

\* str(x)
PyStr(x) ==
    CASE x.t = "str" -> x
      [] x.t = "int" -> StrV(IntToStr(x))
      [] x.t = "bool" -> StrV(IF x.b THEN <<"T", "r", "u", "e">> ELSE <<"F", "a", "l", "s", "e">>)
      [] x.t = "float" -> StrV(IF x = NaN THEN <<"n", "a", "n">> ELSE <<"0", ".", "5">>)
      [] x.t = "none" -> StrV(<<"N", "o", "n", "e">>)

----------------------------------------------------------------------------
(* JSON text.  A text is a sequence of tokens: the punctuation { } [ ] and  *)
(* the comma, a member name with its colon, a scalar literal (a number, a   *)
(* string, true, false, null), the literal NaN, and a word that is no JSON. *)
(* A bytes payload is a sequence of the same tokens and of bytes that are   *)
(* no UTF-8.                                                                *)

Tok(p) == [tok |-> p]

KeyTok(k) == [tok |-> "key", k |-> k]

ValTok(v) == [tok |-> "val", v |-> v]

DictV(d) == [t |-> "dict", d |-> d]

ListV(l) == [t |-> "list", l |-> l]

Parsed(v, next) == [ok |-> TRUE, val |-> v, next |-> next]

ParseError == [ok |-> FALSE, val |-> None, next |-> 0]

\* json.loads with its default parse_constant accepts the literal NaN
RECURSIVE ParseValue(_, _), ParseMembers(_, _, _), ParseElements(_, _, _)
ParseValue(toks, i) ==
    IF i > Len(toks) THEN ParseError
    ELSE CASE toks[i].tok = "val" -> Parsed(toks[i].v, i + 1)
           [] toks[i].tok = "NaN" -> Parsed(NaN, i + 1)
           [] toks[i].tok = "{" ->
                IF i + 1 <= Len(toks) /\ toks[i + 1].tok = "}"
                THEN Parsed(DictV(<<>>), i + 2)
                ELSE ParseMembers(toks, i + 1, <<>>)
           [] toks[i].tok = "[" ->
                IF i + 1 <= Len(toks) /\ toks[i + 1].tok = "]"
                THEN Parsed(ListV(<<>>), i + 2)
                ELSE ParseElements(toks, i + 1, <<>>)
           [] OTHER -> ParseError

\* the members of an object after { or a comma; a repeated name keeps the
\* last value
ParseMembers(toks, i, acc) ==
    IF i > Len(toks) \/ toks[i].tok # "key" THEN ParseError
    ELSE LET m == ParseValue(toks, i + 1)
             d == [k \in DOMAIN acc \cup {toks[i].k} |->
                      IF k = toks[i].k THEN m.val ELSE acc[k]]
         IN  IF ~m.ok \/ m.next > Len(toks) THEN ParseError
             ELSE IF toks[m.next].tok = "}" THEN Parsed(DictV(d), m.next + 1)
             ELSE IF toks[m.next].tok = "," THEN ParseMembers(toks, m.next + 1, d)
             ELSE ParseError

ParseElements(toks, i, acc) ==
    LET e == ParseValue(toks, i)
    IN  IF ~e.ok \/ e.next > Len(toks) THEN ParseError
        ELSE IF toks[e.next].tok = "]" THEN Parsed(ListV(Append(acc, e.val)), e.next + 1)
        ELSE IF toks[e.next].tok = "," THEN ParseElements(toks, e.next + 1, Append(acc, e.val))
        ELSE ParseError

\* json.loads(text): the value, or JSONDecodeError (also for text that goes on
\* after the value)
json_loads(toks) ==
    LET r == ParseValue(toks, 1)
    IN  IF r.ok /\ r.next = Len(toks) + 1 THEN r ELSE ParseError

\* bytes.decode('utf-8'): UnicodeDecodeError on a byte that is no UTF-8
DecodeFails(toks) == \E i \in 1..Len(toks) : toks[i].tok = "xff"

RECURSIVE DumpMembers(_, _)
DumpMembers(d, keys) ==
    IF Len(keys) = 0 THEN <<>>
    ELSE <<KeyTok(keys[1]), ValTok(d[keys[1]])>>
         \o (IF Len(keys) > 1 THEN <<Tok(",")>> ELSE <<>>)
         \o DumpMembers(d, Tail(keys))

\* json.dumps of a dict whose keys are, in order, keys
json_dumps(d, keys) == <<Tok("{")>> \o DumpMembers(d, keys) \o <<Tok("}")>>

----------------------------------------------------------------------------
(* Controller *)

\* a payload is a dict, a str or a bytes
DictPayload(d) == [kind |-> "dict", dict |-> DictV(d)]

StrPayload(toks) == [kind |-> "str", text |-> toks]

BytesPayload(toks) == [kind |-> "bytes", bytes |-> toks]

\* parse_json(payload): the value, or ValueError
parse_json(payload) ==
    IF payload.kind = "dict" THEN [exc |-> "none", val |-> payload.dict]
    ELSE IF payload.kind = "bytes" /\ DecodeFails(payload.bytes)
        THEN [exc |-> "ValueError", val |-> None]
    ELSE LET r == json_loads(IF payload.kind = "bytes" THEN payload.bytes ELSE payload.text)
         IN  IF r.ok THEN [exc |-> "none", val |-> r.val]
             ELSE [exc |-> "ValueError", val |-> None]

\* a build_network that leaves the timestamp as it is
NormTimestamp_Keep(ts) == ts

\* the timestamp of the dict norm after the conversion of milliseconds
NormTimestamp(ts) ==
    IF IsInt(ts) /\ IntLt(IntQR(1000000000, 0), ts) THEN IntV(ts.q) ELSE ts

\* the first part of build_network: the dict norm
Normalize(d) ==
    LET n1 == IF "frequency" \notin DOMAIN d /\ "frequency_mhz" \in DOMAIN d
              THEN With(d, "frequency", d["frequency_mhz"]) ELSE d
        bw == IF "channel_bandwidth_mhz" \in DOMAIN n1
              THEN PyInt(n1["channel_bandwidth_mhz"]) ELSE [exc |-> "none", val |-> None]
        n2 == IF "channel_bandwidth" \notin DOMAIN n1 /\ "channel_bandwidth_mhz" \in DOMAIN n1
              THEN With(n1, "channel_bandwidth",
                        IF bw.exc = "none" THEN PyStr(bw.val)
                        ELSE PyStr(n1["channel_bandwidth_mhz"]))
              ELSE n1
    IN  IF "timestamp" \in DOMAIN n2
        THEN With(n2, "timestamp", NormTimestamp(n2["timestamp"])) ELSE n2

\* int(norm[key]) inside try ... except (ValueError, KeyError): a missing key
\* and a ValueError become ValueError, a TypeError passes through
IntField(norm, key) ==
    IF key \notin DOMAIN norm THEN [exc |-> "ValueError", val |-> None]
    ELSE PyInt(norm[key])

\* the default of norm.get(key, '')
GetOr(norm, key, default) == IF key \in DOMAIN norm THEN norm[key] ELSE default

\* norm = dict(data): a shallow copy of a dict; of another value the dict
\* built from its elements, or the exception raised
DictOf(data) ==
    CASE data.t = "dict" -> [exc |-> "none", val |-> data.d]
      [] data.t = "list" /\ Len(data.l) = 0 -> [exc |-> "none", val |-> <<>>]
      [] data.t = "list" /\ Len(data.l) > 0 /\ data.l[1].t \in {"int", "bool", "float", "none"} ->
            [exc |-> "TypeError", val |-> None]
      [] data.t = "str" /\ Len(data.v) = 0 -> [exc |-> "none", val |-> <<>>]
      [] data.t = "str" /\ Len(data.v) > 0 -> [exc |-> "ValueError", val |-> None]
      [] data.t \in {"int", "bool", "float", "none"} -> [exc |-> "TypeError", val |-> None]

\* build_network(data): the WiFiNetwork, or the exception raised
build_network(data) ==
    LET copy == DictOf(data)
        norm == Normalize(copy.val)
        frequency == IntField(norm, "frequency")
        rssi == IntField(norm, "rssi")
        timestamp == IntField(norm, "timestamp")
    IN  IF copy.exc # "none" THEN [exc |-> copy.exc, val |-> None]
        ELSE IF frequency.exc # "none" THEN [exc |-> frequency.exc, val |-> None]
        \* if frequency != 0: raise ValueError
        ELSE IF frequency.val # IntV(0) THEN [exc |-> "ValueError", val |-> None]
        ELSE IF rssi.exc # "none" THEN [exc |-> rssi.exc, val |-> None]
        ELSE IF timestamp.exc # "none" THEN [exc |-> timestamp.exc, val |-> None]
        ELSE IF IntLe(timestamp.val, IntV(0)) THEN [exc |-> "ValueError", val |-> None]
        ELSE [exc |-> "none",
              val |-> [bssid |-> Get(norm, "bssid"),
                       frequency |-> frequency.val,
                       rssi |-> rssi.val,
                       ssid |-> PyStr(GetOr(norm, "ssid", StrV(<<>>))),
                       timestamp |-> timestamp.val,
                       channel_bandwidth |-> PyStr(GetOr(norm, "channel_bandwidth", StrV(<<>>))),
                       capabilities |-> PyStr(GetOr(norm, "capabilities", StrV(<<>>)))]]

\* save_network(network): the dict of the seven fields goes to WiFiDB.create
save_network(tbl, network) == create(tbl, [k \in RequiredCols |-> network[k]])

\* process_payload_and_save(payload): the table and self.data afterwards, the
\* result, and the step that raised
process_payload_and_save(tbl, sdata, payload) ==
    LET parsed == parse_json(payload)
        network == build_network(parsed.val)
        saved == save_network(tbl, network.val)
    IN  IF parsed.exc # "none"
            THEN [table |-> tbl, data |-> sdata, res |-> Result(parsed.exc, "parse_json")]
        ELSE IF network.exc # "none"
            THEN [table |-> tbl, data |-> parsed.val,
                  res |-> Result(network.exc, "build_network")]
        ELSE [table |-> saved.table, data |-> parsed.val, res |-> saved.res]

----------------------------------------------------------------------------
(* Inputs *)

\* the most rows the table holds in the model
MaxRows == 2

B1 == <<"A", "A", ":", "B", "B", ":", "C", "C", ":", "D", "D", ":", "E", "E", ":", "F", "F">>

B2 == <<"a", "a", ":", "b", "b", ":", "c", "c", ":", "d", "d", ":", "e", "e", ":", "f", "f">>

\* B1 followed by a newline
B1nl == B1 \o <<"\n">>

\* 17 characters, one of them not a hex digit
BadHex == <<"G", "G", ":", "B", "B", ":", "C", "C", ":", "D", "D", ":", "E", "E", ":", "F", "F">>

\* B1 followed by a character that is not a newline
B1x == B1 \o <<"0">>

NotAMac == <<"n", "o", "t", "-", "a", "-", "m", "a", "c">>

Bw20 == <<"2", "0">>

Bw80 == <<"8", "0">>

\* the scenario record of the specification, with bssid b
Base(b) ==
    [bssid |-> StrV(b), frequency |-> IntV(2412), rssi |-> IntV(-50),
     ssid |-> StrV(<<"N", "e", "t">>), timestamp |-> IntV(1707708416),
     channel_bandwidth |-> StrV(Bw20), capabilities |-> StrV(<<"W", "P", "A", "2">>)]

\* a valid record that differs from Base(b) in every column but bssid
Alt(b) ==
    [bssid |-> StrV(b), frequency |-> IntV(5180), rssi |-> IntV(-100),
     ssid |-> StrV(<<"L", "a", "b">>), timestamp |-> IntV(0),
     channel_bandwidth |-> StrV(Bw80), capabilities |-> StrV(<<>>),
     password |-> StrV(<<"p", "w">>), dns_server |-> StrV(<<"8", ".", "8">>),
     gateway |-> StrV(<<"g", "w">>), my_ip |-> StrV(<<"i", "p">>),
     signal_level |-> IntV(3), pavilion_number |-> IntV(7), floor |-> IntV(2)]

\* a valid record whose values are not stored as they are given: booleans in
\* integer fields, optional fields holding the empty sentinels of Stroka_Db,
\* and a key that is no column
Odd(b) ==
    [k \in {"password", "floor", "signal_level", "frequency", "unknown_key"}
           \cup DOMAIN Base(b) |->
        CASE k = "password" -> StrV(<<" ">>)
          [] k = "floor" -> IntV(0)
          [] k = "signal_level" -> BoolV(TRUE)
          [] k = "frequency" -> BoolV(TRUE)
          [] k = "unknown_key" -> IntV(1)
          [] OTHER -> Base(b)[k]]

\* the keys a row can be stored under
StorableKeys == {B1, B2, B1nl}

\* records that pass checker
ValidInputs ==
    {Base(B1), Alt(B1), Odd(B1), Base(B2), Alt(B2), Base(B1nl)}

\* records that checker rejects, and records on which it raises
InvalidInputs ==
    {With(Base(B1), "rssi", IntV(1)),
     With(Base(B1), "password", None),
     With(Alt(B2), "floor", StrV(<<"2">>)),
     Without(Base(B1), "ssid"),
     Base(NotAMac), Alt(<<>>),
     With(Base(B1), "bssid", IntV(12345))}

StoreInputs == ValidInputs \cup InvalidInputs

\* the bssid arguments of read, update and delete
KeyArgs == StorableKeys \cup {<<>>}

----------------------------------------------------------------------------
(* The record store under any sequence of calls *)

NoData == <<>>

\* the callers that run WiFiDB.create at the same time, each on a connection
\* of its own
Sessions == {1, 2}

\* a caller that is in no call
NoCall == [pc |-> "idle", data |-> <<>>, fresh |-> FALSE, ret |-> "none", msg |-> "none"]

NoSessions == [s \in Sessions |-> NoCall]

\* a chat: the state and the data of its FSMContext, and the answers sent to
\* it while the last message was handled
Chat(state, data, answers) == [state |-> state, data |-> data, answers |-> answers]

\* the state of a chat that no flow is open for
NoState == "None"

Call(name, bssid, data, res, rows) ==
    [name |-> name, bssid |-> bssid, data |-> data, ret |-> res.ret, msg |-> res.msg,
     rows |-> rows]

Init ==
    /\ table = <<>>
    /\ self_data = None
    /\ chat = Chat(NoState, <<>>, <<>>)
    /\ sessions = NoSessions
    /\ csv = <<>>
    /\ dbrows = <<>>
    /\ columns = Columns
    /\ op = Call("init", <<>>, NoData, Result("none", "none"), <<>>)

Create ==
    \E data \in StoreInputs :
        LET r == create(table, data)
        IN  /\ Len(r.table) <= MaxRows
            /\ table' = r.table
            /\ UNCHANGED <<self_data, chat, sessions, columns, dbrows, csv>>
            /\ op' = Call("create", <<>>, data, r.res, <<>>)

Read ==
    \E bssid \in {StrV(b) : b \in KeyArgs} \cup {None} :
        /\ UNCHANGED <<table, self_data, chat, sessions, columns, dbrows, csv>>
        /\ op' = Call("read", bssid, NoData, Result("list", "none"), read(table, bssid))

Update ==
    \E bssid \in KeyArgs, data \in StoreInputs :
        LET r == update(table, bssid, data)
        IN  /\ table' = r.table
            /\ UNCHANGED <<self_data, chat, sessions, columns, dbrows, csv>>
            /\ op' = Call("update", bssid, data, r.res, <<>>)

Delete ==
    \E bssid \in KeyArgs :
        LET r == delete(table, bssid)
        IN  /\ table' = r.table
            /\ UNCHANGED <<self_data, chat, sessions, columns, dbrows, csv>>
            /\ op' = Call("delete", bssid, NoData, r.res, <<>>)

Next == Create \/ Read \/ Update \/ Delete

Spec == Init /\ [][Next]_vars

----------------------------------------------------------------------------
(* checker as a function of its argument *)

\* the values a field takes in the arguments of checker
FieldVals(k) ==
    CASE k = "bssid" ->
            {StrV(B2), StrV(B1nl), StrV(BadHex), StrV(B1x), StrV(NotAMac), StrV(<<>>),
             IntV(12345), None}
      [] k = "frequency" -> {IntV(1), IntV(0), IntV(-1), BoolV(TRUE), StrV(<<"2", "4">>)}
      [] k = "rssi" ->
            {IntV(-100), IntV(0), IntV(-101), IntV(1), BoolV(FALSE), StrV(<<"-", "5">>)}
      [] k = "timestamp" ->
            {IntV(0), IntV(-1), IntQR(1707708416, 123), BoolV(TRUE), None}
      [] k = "ssid" -> {StrV(<<>>), StrV(<<" ">>), IntV(5)}
      [] k = "channel_bandwidth" ->
            {StrV(<<"4", "0">>), StrV(<<"1", "6", "0">>), StrV(<<"1", "0">>), StrV(<<>>),
             IntV(20)}
      [] k = "capabilities" -> {StrV(<<>>), None}
      [] k \in Range(optional_string_fields) -> {StrV(<<>>), StrV(<<"x">>), None, IntV(5)}
      [] k \in Range(optional_int_fields) -> {IntV(0), IntV(-4), BoolV(TRUE), None, StrV(<<"3">>)}
      [] OTHER -> {IntV(1)}

CheckerKeys == Columns \cup {"unknown_key"}

\* the dicts that differ from d in one field, changed or left out
OneChange(d) ==
    {With(d, k, v) : <<k, v>> \in UNION {{k} \X FieldVals(k) : k \in CheckerKeys}}
    \cup {Without(d, k) : k \in DOMAIN d}

\* the argument is Base(B1) or Alt(B1) with at most two fields changed or
\* left out
InitChecker ==
    /\ table = <<>>
    /\ self_data = None
    /\ chat = Chat(NoState, <<>>, <<>>)
    /\ sessions = NoSessions
    /\ csv = <<>>
    /\ dbrows = <<>>
    /\ columns = Columns
    /\ \E d0 \in {Base(B1), Alt(B1)} :
          \E d1 \in {d0} \cup OneChange(d0) :
              \E data \in {d1} \cup OneChange(d1) :
                  op = Call("argument", <<>>, data, Result("none", "none"), <<>>)

\* validation_result = self.checker(data): ret is the kind of the result and
\* msg the field its reason names
Check ==
    /\ op.name = "argument"
    /\ op' = Call("checker", <<>>, op.data,
                  Result(checker(op.data).kind, checker(op.data).field), <<>>)
    /\ UNCHANGED <<table, self_data, chat, sessions, columns, dbrows, csv>>

NextChecker == Check

SpecChecker == InitChecker /\ [][NextChecker]_vars

----------------------------------------------------------------------------
(* The controller on a store that other callers write to *)

\* the payload of test_process_payload_and_save_success
TestPayload ==
    [bssid |-> StrV(B2), frequency |-> IntV(2412), rssi |-> IntV(-50),
     ssid |-> StrV(<<"T", "e", "s", "t", "N", "e", "t">>), timestamp |-> IntV(1234567890),
     channel_bandwidth |-> StrV(Bw20), capabilities |-> StrV(<<"[", "W", "P", "A", "2", "]">>)]

\* a scan that names frequency and bandwidth by their aliases and gives the
\* time in milliseconds
AliasPayload ==
    [bssid |-> StrV(B1), frequency_mhz |-> IntV(2412), rssi |-> StrV(<<"-", "5", "0">>),
     ssid |-> StrV(<<"N", "e", "t">>), timestamp |-> IntQR(1707708416, 123),
     channel_bandwidth_mhz |-> IntV(20), capabilities |-> StrV(<<"W", "P", "A", "2">>),
     password |-> StrV(<<"p", "w">>)]

TestText == json_dumps(TestPayload, required_keys)

Payloads ==
    {DictPayload(TestPayload),
     StrPayload(TestText),
     BytesPayload(TestText),
     DictPayload(AliasPayload),
     DictPayload(With(AliasPayload, "frequency_mhz", IntV(0))),
     StrPayload(json_dumps(With(TestPayload, "frequency", IntV(0)), required_keys)),
     StrPayload(json_dumps(With(With(TestPayload, "frequency", StrV(<<"0">>)), "bssid", None),
                           required_keys)),
     \* not a json
     StrPayload(<<Tok("word"), Tok("word")>>),
     StrPayload(<<>>),
     StrPayload(<<Tok("NaN")>>),
     StrPayload(<<Tok("{"), KeyTok("frequency"), ValTok(IntV(0)), Tok(","),
                  KeyTok("timestamp"), Tok("NaN"), Tok("}")>>),
     StrPayload(SubSeq(TestText, 1, Len(TestText) - 1)),
     StrPayload(TestText \o <<Tok("word")>>),
     StrPayload(<<Tok("["), ValTok(IntV(1)), Tok(","), Tok("]")>>),
     StrPayload(<<Tok("["), ValTok(IntV(1)), Tok("]")>>),
     StrPayload(<<Tok("["), Tok("]")>>),
     StrPayload(<<ValTok(StrV(<<"x">>))>>),
     BytesPayload(<<Tok("xff")>> \o TestText),
     BytesPayload(<<Tok("NaN")>>)}

\* another caller stores a record
Seed ==
    \E data \in {Base(B1), Alt(B1), TestPayload} :
        LET r == create(table, data)
        IN  /\ r.res.ret = "True"
            /\ Len(r.table) <= MaxRows
            /\ table' = r.table
            /\ UNCHANGED <<self_data, chat, sessions, columns, dbrows, csv>>
            /\ op' = Call("create", <<>>, data, r.res, <<>>)

Process ==
    \E payload \in Payloads :
        LET r == process_payload_and_save(table, self_data, payload)
        IN  /\ table' = r.table
            /\ self_data' = r.data
            /\ UNCHANGED <<chat, sessions, columns, dbrows, csv>>
            /\ op' = Call("process_payload_and_save", <<>>, payload, r.res, <<>>)

NextCtl == Seed \/ Process

SpecCtl == Init /\ [][NextCtl]_vars

----------------------------------------------------------------------------
(* Properties.  The results of the specification are read from the result  *)
(* of the call: Ok is a return of True; Conflict is the return of False     *)
(* with the message of sqlite3.IntegrityError; ValidationFailed the return  *)
(* of False with the message of checker; NotFound a return of False from    *)
(* update or delete that no validation message comes with.                  *)

Stored(tbl, key) == \E i \in 1..Len(tbl) : tbl[i]["bssid"] = key

Keys(tbl) == [i \in 1..Len(tbl) |-> tbl[i]["bssid"]]

UniqueKeys(tbl) ==
    \A i, j \in 1..Len(tbl) : tbl[i]["bssid"] = tbl[j]["bssid"] => i = j

NotFound(call) == call.ret = "False" /\ call.msg \in {"not_found", "none"}

\* C1: after any sequence of create, update and delete calls the table holds
\* at most one row per bssid, and no call changes the bssid of a row that
\* stays in the table: create, read and update leave the keys of the stored
\* rows as they were (update also when the record names another bssid), and
\* delete only removes the rows of its key.
C1_OneRowPerKey ==
    [][/\ UniqueKeys(table')
       /\ op'.name \in {"create", "read", "update"} =>
             /\ Len(table') >= Len(table)
             /\ SubSeq(Keys(table'), 1, Len(table)) = Keys(table)
       /\ op'.name = "delete" =>
             Keys(table') = SelectSeq(Keys(table), LAMBDA k : k # StrV(op'.bssid))]_vars

\* an update succeeded with a record that names another bssid than the row's
C1_Witness ==
    /\ op.name = "update"
    /\ op.ret = "True"
    /\ op.data["bssid"] # StrV(op.bssid)
    /\ Len(table) = 2

CreateOnStored(tbl, call) ==
    /\ call.name = "create"
    /\ "bssid" \in DOMAIN call.data
    /\ Stored(tbl, call.data["bssid"])

\* C2 as stated: create on a stored bssid is rejected with Conflict and leaves
\* the table as it was, whatever the fields of the record.
C2_Original ==
    [][CreateOnStored(table, op') => (op'.msg = "conflict" /\ table' = table)]_vars

\* C2 amended: create on a stored bssid always returns False and leaves the
\* table as it was, whatever the fields of the record; the rejection is a
\* Conflict when the record passes checker and a validation failure when it
\* does not; the same valid record created twice leaves one row and the second
\* call reports Conflict.
C2_Amended ==
    [][/\ CreateOnStored(table, op') =>
             /\ op'.ret = "False"
             /\ table' = table
             /\ op'.msg = (IF checker(op'.data).ok THEN "conflict" ELSE "validation")
       /\ (op.name = "create" /\ op.ret = "True" /\ op'.name = "create"
              /\ op'.data = op.data) =>
             /\ op'.msg = "conflict"
             /\ Cardinality(Matches(table', op.data["bssid"].v)) = 1]_vars

\* a create was rejected as a Conflict and the stored row differs from the
\* record
C2_Witness ==
    /\ op.name = "create"
    /\ op.msg = "conflict"
    /\ \E i \in 1..Len(table) :
          /\ table[i]["bssid"] = op.data["bssid"]
          /\ table[i]["rssi"] # op.data["rssi"]

\* a text payload that is JSON for an object of exactly the seven required
\* fields, with values checker accepts
WellFormedText(payload) ==
    /\ payload.kind = "str"
    /\ \A i \in 1..Len(payload.text) : payload.text[i].tok # "NaN"
    /\ json_loads(payload.text).ok
    /\ json_loads(payload.text).val.t = "dict"
    /\ DOMAIN json_loads(payload.text).val.d = RequiredCols
    /\ checker(json_loads(payload.text).val.d).ok

\* C3: for a valid JSON text payload of the seven well-formed required fields
\* whose bssid is not stored yet, process_payload_and_save returns True and
\* read(bssid) then returns exactly one row with the bssid and the rssi of the
\* payload.
C3_Claim ==
    [][(/\ op'.name = "process_payload_and_save"
        /\ WellFormedText(op'.data)
        /\ ~Stored(table, json_loads(op'.data.text).val.d["bssid"])) =>
          LET payload == json_loads(op'.data.text).val.d
              rows == read(table', payload["bssid"])
          IN  /\ op'.ret = "True"
              /\ Len(rows) = 1
              /\ rows[1]["bssid"] = payload["bssid"]
              /\ PyEq(rows[1]["rssi"], payload["rssi"])]_vars

\* C4: after create accepted a record, read(bssid) returns exactly one row; the
\* row equals the record in every column the record sets and is null in every
\* optional column it does not set.
C4_RoundTrip ==
    (op.name = "create" /\ op.ret = "True") =>
        LET rows == read(table, op.data["bssid"])
        IN  /\ Len(rows) = 1
            /\ \A c \in Columns :
                  IF c \in DOMAIN op.data THEN PyEq(rows[1][c], op.data[c])
                  ELSE rows[1][c] = None

\* create accepted a record that sets some optional fields, to the empty
\* sentinels, and leaves others unset
C4_Witness ==
    /\ op.name = "create"
    /\ op.ret = "True"
    /\ op.data = Odd(B1)
    /\ read(table, StrV(B1))[1]["floor"] = IntV(0)
    /\ read(table, StrV(B1))[1]["gateway"] = None

\* XX:XX:XX:XX:XX:XX, each X a hex digit
MacFormat(s) ==
    /\ Len(s) = 17
    /\ \A i \in 1..17 : IF i % 3 = 0 THEN s[i] = ":" ELSE s[i] \in HexChars

RequiredWellTyped(d) ==
    /\ RequiredCols \subseteq DOMAIN d
    /\ \A k \in {"bssid", "ssid", "channel_bandwidth", "capabilities"} : IsStr(d[k])
    /\ \A k \in {"frequency", "rssi", "timestamp"} : IsInt(d[k])

OptionalWellTyped(d) ==
    /\ \A k \in Range(optional_string_fields) \cap DOMAIN d : IsStr(d[k])
    /\ \A k \in Range(optional_int_fields) \cap DOMAIN d : IsInt(d[k])

\* C5: for every record whose seven required fields are present with the
\* right types (and whose optional fields, when present, have theirs), checker
\* returns success if and only if bssid has the form XX:XX:XX:XX:XX:XX,
\* -100 <= rssi <= 0, frequency > 0, timestamp >= 0, ssid is not empty and
\* channel_bandwidth is one of "20", "40", "80", "160".
C5_Claim ==
    (op.name = "checker" /\ RequiredWellTyped(op.data) /\ OptionalWellTyped(op.data)) =>
        (op.ret = "ok" <=>
            /\ MacFormat(op.data["bssid"].v)
            /\ IntLe(IntV(-100), op.data["rssi"]) /\ IntLe(op.data["rssi"], IntV(0))
            /\ IntLt(IntV(0), op.data["frequency"])
            /\ IntLe(IntV(0), op.data["timestamp"])
            /\ Len(op.data["ssid"].v) > 0
            /\ op.data["channel_bandwidth"].v \in
                   {<<"2", "0">>, <<"4", "0">>, <<"8", "0">>, <<"1", "6", "0">>})

\* C6: checker is total: for every record it returns success or a reason that
\* names a field, and never raises.
C6_Claim ==
    op.name = "checker" =>
        \/ op.ret = "ok"
        \/ op.ret \in {"missing", "type", "value"} /\ op.msg \in Columns

\* text or bytes that is UTF-8 and JSON
ValidUtf8Json(payload) ==
    LET toks == IF payload.kind = "bytes" THEN payload.bytes ELSE payload.text
    IN  /\ \A i \in 1..Len(toks) : toks[i].tok \notin {"xff", "NaN"}
        /\ json_loads(toks).ok

\* C7: process_payload_and_save on text or bytes that is not valid UTF-8 JSON
\* raises ValueError from parse_json, and the table is as it was.
C7_Claim ==
    [][(/\ op'.name = "process_payload_and_save"
        /\ op'.data.kind \in {"str", "bytes"}
        /\ ~ValidUtf8Json(op'.data)) =>
          (op'.ret = "ValueError" /\ op'.msg = "parse_json" /\ table' = table)]_vars

\* C8: update on a bssid that is not stored reports NotFound when the record
\* passes checker, and in no case inserts a row: the table is as it was; an
\* update whose record does not pass checker does not succeed and leaves the
\* table as it was, whether or not the bssid is stored.
C8_UpdateRejected ==
    [][op'.name = "update" =>
          /\ ~Stored(table, StrV(op'.bssid)) =>
                /\ table' = table
                /\ op'.ret # "True"
                /\ checker(op'.data).ok => NotFound(op')
          /\ ~checker(op'.data).ok =>
                /\ table' = table
                /\ op'.ret # "True"
                /\ checker(op'.data).kind # "TypeError" =>
                      (op'.ret = "False" /\ op'.msg = "validation")]_vars

\* an update of a key that is not stored was answered NotFound while other
\* rows are stored
C8_Witness ==
    /\ op.name = "update"
    /\ op.msg = "not_found"
    /\ checker(op.data).ok
    /\ Len(table) > 0
    /\ ~Stored(table, StrV(op.bssid))

\* C9: a successful update(bssid, record) leaves the number of rows as it was,
\* makes every column but bssid of the row of that bssid equal to the value in
\* the record, or null when the record omits it, and leaves every other row as
\* it was.
C9_UpdateReplaces ==
    [][(op'.name = "update" /\ op'.ret = "True") =>
          /\ Len(table') = Len(table)
          /\ \A i \in 1..Len(table) :
                IF table[i]["bssid"] = StrV(op'.bssid)
                THEN \A c \in NonKeyCols :
                        IF c \in DOMAIN op'.data THEN PyEq(table'[i][c], op'.data[c])
                        ELSE table'[i][c] = None
                ELSE table'[i] = table[i]]_vars

\* an update succeeded with a record that omits password, beside another row
\* that holds one
C9_Witness ==
    /\ op.name = "update"
    /\ op.ret = "True"
    /\ "password" \notin DOMAIN op.data
    /\ Len(table) = 2
    /\ \E i, j \in 1..Len(table) :
          /\ table[i]["bssid"] = StrV(op.bssid)
          /\ table[i]["password"] = None
          /\ table[j]["password"] # None

\* C10: delete(bssid) returns True and removes exactly the row of that bssid
\* when it is stored, returns False and changes nothing when it is not, and in
\* both cases leaves the other rows as they were; no other call removes a row.
C10_DeleteExactly ==
    [][/\ op'.name = "delete" =>
             /\ table' = SelectSeq(table, LAMBDA row : row["bssid"] # StrV(op'.bssid))
             /\ op'.ret = (IF Stored(table, StrV(op'.bssid)) THEN "True" ELSE "False")
             /\ ~Stored(table, StrV(op'.bssid)) => table' = table
       /\ op'.name # "delete" =>
             \A i \in 1..Len(table) : Stored(table', table[i]["bssid"])]_vars

\* a delete removed one row and another row is still stored
C10_Witness ==
    /\ op.name = "delete"
    /\ op.ret = "True"
    /\ Len(table) = 1
    /\ table[1]["bssid"] # StrV(op.bssid)

\* C11: read called with a key string, the empty string included, returns no
\* record or one record, and the bssid of that record is the key; read called
\* with no key returns all stored rows.
C11_Claim ==
    op.name = "read" =>
        IF op.bssid # None
        THEN /\ Len(op.rows) <= 1
             /\ \A i \in 1..Len(op.rows) : op.rows[i]["bssid"] = op.bssid
        ELSE op.rows = table

----------------------------------------------------------------------------
(* Stroka_Db row objects and WiFiDB.create_from_stroka.  An object is the  *)
(* function from its attribute names to their values; the constructor sets *)
(* thirteen attributes and no attribute floor.                              *)

Space == StrV(<<" ">>)

Stroka_Db ==
    [bssid |-> Space, freq |-> IntV(0), rssi |-> IntV(0), ssid |-> Space,
     timestamp |-> IntV(0), volna |-> Space, tochka_dostupa |-> Space,
     password |-> Space, dns_server |-> Space, shluz |-> Space, local |-> Space,
     uroven_signala |-> IntV(0), pavilion |-> IntV(0)]

\* the attributes _stroka_to_dict reads
StrokaAttrs ==
    {"bssid", "freq", "rssi", "ssid", "timestamp", "volna", "tochka_dostupa",
     "password", "dns_server", "shluz", "local", "uroven_signala", "pavilion",
     "floor"}

\* x if x != sentinel else None
UnlessSentinel(x, sentinel) == IF PyEq(x, sentinel) THEN None ELSE x

\* reading an attribute the object does not have raises AttributeError
stroka_to_dict(stroka) ==
    IF ~(StrokaAttrs \subseteq DOMAIN stroka)
    THEN [exc |-> "AttributeError", val |-> <<>>]
    ELSE [exc |-> "none",
          val |-> [bssid |-> stroka.bssid,
                   frequency |-> stroka.freq,
                   rssi |-> stroka.rssi,
                   ssid |-> stroka.ssid,
                   timestamp |-> stroka.timestamp,
                   channel_bandwidth |-> stroka.volna,
                   capabilities |-> stroka.tochka_dostupa,
                   password |-> UnlessSentinel(stroka.password, Space),
                   dns_server |-> UnlessSentinel(stroka.dns_server, Space),
                   gateway |-> UnlessSentinel(stroka.shluz, Space),
                   my_ip |-> UnlessSentinel(stroka.local, Space),
                   signal_level |-> UnlessSentinel(stroka.uroven_signala, IntV(0)),
                   pavilion_number |-> UnlessSentinel(stroka.pavilion, IntV(0)),
                   floor |-> UnlessSentinel(stroka.floor, IntV(0))]]

create_from_stroka(tbl, stroka) ==
    LET data == stroka_to_dict(stroka)
    IN  IF data.exc # "none"
        THEN [table |-> tbl, res |-> Result(data.exc, "none")]
        ELSE create(tbl, data.val)

\* a row object with valid required attributes
StrokaBase(b) ==
    [Stroka_Db EXCEPT !.bssid = StrV(b), !.freq = IntV(2412), !.rssi = IntV(-50),
                      !.ssid = StrV(<<"N", "e", "t">>), !.timestamp = IntV(1707),
                      !.volna = StrV(Bw20), !.tochka_dostupa = StrV(<<"W">>)]

\* the objects a caller builds: each optional attribute keeps its sentinel or
\* is assigned a value, and floor is not assigned, assigned 0 or assigned 3
Strokas ==
    {LET s == [StrokaBase(b) EXCEPT !.password = pw, !.dns_server = tx,
                                    !.shluz = tx, !.local = tx,
                                    !.uroven_signala = sl, !.pavilion = pv]
     IN  IF fl = None THEN s ELSE With(s, "floor", fl) :
        b \in {B1, B2},
        pw \in {Space, StrV(<<"p">>)},
        tx \in {Space, StrV(<<"1">>)},
        sl \in {IntV(0), IntV(-40)},
        pv \in {IntV(0), IntV(7), BoolV(FALSE)},
        fl \in {None, IntV(0), IntV(3)}}

CreateFromStroka ==
    \E stroka \in Strokas :
        LET r == create_from_stroka(table, stroka)
        IN  /\ Len(r.table) <= MaxRows
            /\ table' = r.table
            /\ UNCHANGED <<self_data, chat, sessions, columns, dbrows, csv>>
            /\ op' = Call("create_from_stroka", <<>>, stroka, r.res, <<>>)

NextStroka == CreateFromStroka \/ Read

SpecStroka == Init /\ [][NextStroka]_vars

\* every attribute is there and every optional one holds its sentinel
AllSentinels(stroka) ==
    /\ StrokaAttrs \subseteq DOMAIN stroka
    /\ \A a \in {"password", "dns_server", "shluz", "local"} : stroka[a] = Space
    /\ \A a \in {"uroven_signala", "pavilion", "floor"} : stroka[a] = IntV(0)

\* C12: create_from_stroka of a row object whose required fields are valid and
\* whose optional fields hold their sentinels (" " and 0) returns True and
\* stores a row whose optional columns are all null.
C12_Claim ==
    [][(/\ op'.name = "create_from_stroka"
        /\ AllSentinels(op'.data)
        /\ ~Stored(table, op'.data.bssid)) =>
          /\ op'.ret = "True"
          /\ Len(read(table', op'.data.bssid)) = 1
          /\ \A c \in OptionalCols : read(table', op'.data.bssid)[1][c] = None]_vars

----------------------------------------------------------------------------
(* handlers.py: ingestion of a JSON text sent to a chat.  An answer is the  *)
(* message.answer call that sends it, named by the text it sends.           *)

Answer(tag) == [tag |-> tag, success |-> 0, errors |-> 0, total |-> 0]

\* a local variable: F(x) for the value of x, computed once
Let(x, F(_)) == CHOOSE r \in {F(v) : v \in {x}} : TRUE

\* isinstance(x, (int, float))
IsNumber(x) == x.t \in {"int", "bool", "float"}

\* x <= 0 for a number: false for nan, and false for 0.5
NumLe0(x) == IF x.t = "float" THEN FALSE ELSE IntLe(x, IntV(0))

ZeroMac == <<"0", "0", ":", "0", "0", ":", "0", "0", ":", "0", "0", ":", "0", "0", ":", "0", "0">>

\* the loop of _prepare_wifi_data over the keys of the copy
PreparedValue(key, v) ==
    IF v = None
    THEN IF key \in {"frequency", "rssi", "timestamp"} THEN IntV(0)
         ELSE IF key \in {"ssid", "bssid", "channel_bandwidth", "capabilities"}
              THEN StrV(<<>>)
         ELSE v
    ELSE IF v = StrV(<<>>) /\ key = "bssid" THEN StrV(ZeroMac)
    ELSE v

prepare_wifi_data(data) ==
    [k \in DOMAIN data \cup RequiredCols |->
        IF k \in DOMAIN data THEN PreparedValue(k, data[k])
        ELSE IF k \in {"frequency", "rssi", "timestamp"} THEN IntV(0)
        ELSE StrV(<<>>)]

\* _validate_wifi_data(data): (is_valid, error_msg); msg is the field that the
\* message is about
validate_wifi_data(data) ==
    LET required_fields == <<"bssid", "frequency", "rssi", "ssid", "timestamp">>
        missing == {i \in 1..Len(required_fields) : required_fields[i] \notin DOMAIN data}
        No(field) == [ok |-> FALSE, msg |-> field]
    IN  IF missing # {} THEN No(required_fields[FirstIdx(missing)])
        ELSE IF ~IsStr(data["bssid"]) \/ Len(data["bssid"].v) = 0 THEN No("bssid")
        ELSE IF ~IsStr(data["ssid"]) THEN No("ssid")
        ELSE IF ~IsNumber(data["frequency"]) \/ NumLe0(data["frequency"])
            THEN No("frequency")
        ELSE IF ~IsInt(data["rssi"]) \/ IntLt(IntV(0), data["rssi"]) THEN No("rssi")
        ELSE IF ~IsNumber(data["timestamp"]) \/ NumLe0(data["timestamp"])
            THEN No("timestamp")
        ELSE [ok |-> TRUE, msg |-> "none"]

\* _process_single_wifi_record(data, message, state): the table afterwards, the
\* value returned and the answers sent.  The second validation compares the
\* tuple that _validate_wifi_data returns, which is never false.  The value
\* returned on success is the value of save_network, the bool True.
process_single_wifi_record(tbl, data) ==
    Let(prepare_wifi_data(data), LAMBDA prepared_data :
    Let(validate_wifi_data(prepared_data), LAMBDA valid :
    Let(build_network(DictV(prepared_data)), LAMBDA network :
        IF ~valid.ok
            THEN [table |-> tbl, ret |-> None, answers |-> <<Answer("validation")>>]
        ELSE IF network.exc # "none"
            THEN [table |-> tbl, ret |-> None, answers |-> <<Answer("processing_error")>>]
        ELSE Let(save_network(tbl, network.val), LAMBDA saved :
             IF saved.res.ret = "True"
                 THEN [table |-> saved.table, ret |-> BoolV(TRUE), answers |-> <<>>]
             ELSE IF saved.res.ret = "False"
                 THEN [table |-> saved.table, ret |-> None,
                       answers |-> <<Answer("not_saved")>>]
             ELSE [table |-> tbl, ret |-> None,
                   answers |-> <<Answer("processing_error")>>]))))

\* the for loop of _process_multiple_wifi_records from record i on
RECURSIVE ProcessRecords(_, _, _)
ProcessRecords(records, i, acc) ==
    IF i > Len(records) THEN acc
    ELSE IF records[i].t # "dict"
        THEN ProcessRecords(records, i + 1,
                            [acc EXCEPT !.errors = @ + 1, !.visited = Append(@, i)])
    ELSE Let(process_single_wifi_record(acc.table, records[i].d), LAMBDA r :
         Let([table |-> r.table,
              answers |-> acc.answers \o r.answers,
              success |-> acc.success + (IF r.ret # None THEN 1 ELSE 0),
              errors |-> acc.errors + (IF r.ret # None THEN 0 ELSE 1),
              visited |-> Append(acc.visited, i)],
             LAMBDA next : ProcessRecords(records, i + 1, next)))

\* _process_multiple_wifi_records(records, message): the table afterwards, the
\* answers sent, the counts of the final answer and the records visited
process_multiple_wifi_records(tbl, records) ==
    IF Len(records) = 0
    THEN [table |-> tbl, answers |-> <<Answer("no_records")>>, success |-> 0,
          errors |-> 0, visited |-> <<>>]
    ELSE Let(ProcessRecords(records, 1,
                 [table |-> tbl, answers |-> <<Answer("started")>>, success |-> 0,
                  errors |-> 0, visited |-> <<>>]),
             LAMBDA r :
             [r EXCEPT !.answers = Append(@, [tag |-> "result", success |-> r.success,
                                              errors |-> r.errors,
                                              total |-> Len(records)])])

WhiteSpace == {" ", "\n", "\t"}

\* str.strip()
RECURSIVE Strip(_)
Strip(s) ==
    IF Len(s) = 0 THEN s
    ELSE IF s[1] \in WhiteSpace THEN Strip(Tail(s))
    ELSE IF s[Len(s)] \in WhiteSpace THEN Strip(SubSeq(s, 1, Len(s) - 1))
    ELSE s

ExampleMac == <<"0", "0", ":", "1", "1", ":", "2", "2", ":", "3", "3", ":", "4", "4", ":", "5", "5">>

MyWiFi == <<"M", "y", "W", "i", "F", "i">>

\* no payload is taken for the example
is_example_payload_Never(obj) == FALSE

\* _is_example_payload(obj)
is_example_payload(obj) ==
    /\ obj.t = "dict"
    /\ \/ /\ "bssid" \in DOMAIN obj.d
          /\ IsStr(obj.d["bssid"])
          /\ Strip(obj.d["bssid"].v) = ExampleMac
       \/ /\ "ssid" \in DOMAIN obj.d
          /\ obj.d["ssid"] = StrV(MyWiFi)

\* what a handler leaves: the table, the chat and the exception it raised
Handled(tbl, state, data, answers, exc) ==
    [table |-> tbl, chat |-> Chat(state, data, answers), exc |-> exc]

\* the body that handle_text_or_file and _process_json_file_content share.
\* The first if statement hands the value to the batch or to the single
\* ingestion; the second one then looks for the example payload, hands a list
\* to the batch ingestion again, and calls _process_single_wifi_record without
\* its argument state, which raises TypeError.
IngestJson(tbl, ch, toks) ==
    Let(json_loads(toks), LAMBDA parsed :
        IF ~parsed.ok THEN Handled(tbl, ch.state, ch.data, <<Answer("bad_json")>>, "none")
        ELSE IF parsed.val.t = "list"
            THEN Let(process_multiple_wifi_records(tbl, parsed.val.l), LAMBDA batch :
                 IF \E i \in 1..Len(parsed.val.l) : is_example_payload(parsed.val.l[i])
                 THEN Handled(batch.table, ch.state, ch.data,
                              Append(batch.answers, Answer("example")), "none")
                 ELSE Let(process_multiple_wifi_records(batch.table, parsed.val.l),
                          LAMBDA again :
                          Handled(again.table, ch.state, ch.data,
                                  batch.answers \o again.answers, "none")))
        ELSE IF parsed.val.t = "dict"
            THEN Let(process_single_wifi_record(tbl, parsed.val.d), LAMBDA single :
                 Let(IF single.ret # None
                     THEN Handled(single.table, "waiting_for_pavilion",
                                  With(ch.data, "bssid", single.ret),
                                  single.answers \o <<Answer("ask_pavilion")>>, "none")
                     ELSE Handled(single.table, ch.state, ch.data, single.answers, "none"),
                     LAMBDA first :
                     IF is_example_payload(parsed.val)
                     THEN [first EXCEPT !.chat.answers = Append(@, Answer("example"))]
                     ELSE [first EXCEPT !.exc = "TypeError"]))
        ELSE Handled(tbl, ch.state, ch.data, <<Answer("unsupported")>>, "none"))

\* handle_text_or_file(message, state) for the text of the message
handle_text_or_file(tbl, ch, text) == IngestJson(tbl, ch, text)

\* _process_json_file_content(content, message, state)
process_json_file_content(tbl, ch, content) == IngestJson(tbl, ch, content)

\* a /start that keeps the context of the chat
cmd_start_Keep(tbl, ch) == Handled(tbl, ch.state, ch.data, <<Answer("welcome")>>, "none")

\* cmd_start and new_entry_prompt: state.clear() and the answers
cmd_start(tbl, ch) == Handled(tbl, NoState, <<>>, <<Answer("welcome")>>, "none")

new_entry_prompt(tbl, ch) == Handled(tbl, NoState, <<>>, <<Answer("instruction")>>, "none")

\* process_pavilion(message, state)
process_pavilion(tbl, ch, text) ==
    LET pavilion == PyInt(StrV(Strip(text)))
    IN  IF pavilion.exc # "none" \/ IntLe(pavilion.val, IntV(0))
        THEN Handled(tbl, ch.state, ch.data, <<Answer("pavilion_must_be_positive")>>, "none")
        ELSE Handled(tbl, "waiting_for_password", With(ch.data, "pavilion", pavilion.val),
                     <<Answer("ask_password")>>, "none")

\* process_password(message, state): Controller has no method update_network,
\* so the call raises AttributeError before any answer and before state.clear()
process_password(tbl, ch, text) == Handled(tbl, ch.state, ch.data, <<>>, "AttributeError")

----------------------------------------------------------------------------
(* data_processor.py: the same ingestion without the FSM.  Its              *)
(* _prepare_wifi_data is that of handlers.py; its _validate_wifi_data skips *)
(* the test of a field whose value is None.                                 *)

dp_validate_wifi_data(data) ==
    LET required_fields == <<"bssid", "frequency", "rssi", "ssid", "timestamp">>
        missing == {i \in 1..Len(required_fields) : required_fields[i] \notin DOMAIN data}
        No(field) == [ok |-> FALSE, msg |-> field]
    IN  IF missing # {} THEN No(required_fields[FirstIdx(missing)])
        ELSE IF data["bssid"] # None /\ (~IsStr(data["bssid"]) \/ Len(data["bssid"].v) = 0)
            THEN No("bssid")
        ELSE IF data["ssid"] # None /\ ~IsStr(data["ssid"]) THEN No("ssid")
        ELSE IF data["frequency"] # None
                /\ (~IsNumber(data["frequency"]) \/ NumLe0(data["frequency"]))
            THEN No("frequency")
        ELSE IF data["rssi"] # None /\ (~IsInt(data["rssi"]) \/ IntLt(IntV(0), data["rssi"]))
            THEN No("rssi")
        ELSE IF data["timestamp"] # None
                /\ (~IsNumber(data["timestamp"]) \/ NumLe0(data["timestamp"]))
            THEN No("timestamp")
        ELSE [ok |-> TRUE, msg |-> "none"]

\* data_processor._process_single_wifi_record(data): the table afterwards and
\* the bool returned
dp_process_single_wifi_record(tbl, data) ==
    Let(prepare_wifi_data(data), LAMBDA prepared_data :
    Let(dp_validate_wifi_data(prepared_data), LAMBDA valid :
    Let(build_network(DictV(prepared_data)), LAMBDA network :
        IF ~valid.ok \/ network.exc # "none" THEN [table |-> tbl, ret |-> FALSE]
        ELSE Let(save_network(tbl, network.val), LAMBDA saved :
             IF saved.res.ret \notin {"True", "False"} THEN [table |-> tbl, ret |-> FALSE]
             ELSE [table |-> saved.table, ret |-> saved.res.ret = "True"]))))

\* the for loop of data_processor._process_multiple_wifi_records
RECURSIVE dp_ProcessRecords(_, _, _)
dp_ProcessRecords(records, i, acc) ==
    IF i > Len(records) THEN acc
    ELSE IF records[i].t # "dict"
        THEN dp_ProcessRecords(records, i + 1,
                               [acc EXCEPT !.errors = @ + 1, !.visited = Append(@, i)])
    ELSE Let(dp_process_single_wifi_record(acc.table, records[i].d), LAMBDA r :
         Let([table |-> r.table,
              answers |-> acc.answers,
              success |-> acc.success + (IF r.ret THEN 1 ELSE 0),
              errors |-> acc.errors + (IF r.ret THEN 0 ELSE 1),
              visited |-> Append(acc.visited, i)],
             LAMBDA next : dp_ProcessRecords(records, i + 1, next)))

dp_process_multiple_wifi_records(tbl, records) ==
    IF Len(records) = 0
    THEN [table |-> tbl, answers |-> <<Answer("no_records")>>, success |-> 0,
          errors |-> 0, visited |-> <<>>]
    ELSE Let(dp_ProcessRecords(records, 1,
                 [table |-> tbl, answers |-> <<Answer("started")>>, success |-> 0,
                  errors |-> 0, visited |-> <<>>]),
             LAMBDA r :
             [r EXCEPT !.answers = Append(@, [tag |-> "result", success |-> r.success,
                                              errors |-> r.errors,
                                              total |-> Len(records)])])

\* data_processor.process_new_entry(message)
process_new_entry(tbl, ch, text) ==
    Let(json_loads(text), LAMBDA parsed :
        IF ~parsed.ok THEN Handled(tbl, ch.state, ch.data, <<Answer("bad_json")>>, "none")
        ELSE IF parsed.val.t = "list"
            THEN Let(dp_process_multiple_wifi_records(tbl, parsed.val.l), LAMBDA batch :
                     Handled(batch.table, ch.state, ch.data, batch.answers, "none"))
        ELSE IF parsed.val.t = "dict"
            THEN Let(dp_process_single_wifi_record(tbl, parsed.val.d), LAMBDA single :
                     Handled(single.table, ch.state, ch.data,
                             <<Answer(IF single.ret THEN "saved" ELSE "not_saved")>>, "none"))
        ELSE Handled(tbl, ch.state, ch.data, <<Answer("unsupported")>>, "none"))

----------------------------------------------------------------------------
(* The handlers as a specification.  aiogram calls process_pavilion and    *)
(* process_password with the FSMContext of a chat in their state; that      *)
(* context, its state and its data, is an input of the handler and is drawn *)
(* in the initial state.                                                    *)

\* the example of the instructions
ExamplePayload ==
    [bssid |-> StrV(ExampleMac), frequency |-> IntV(2412), rssi |-> IntV(-50),
     ssid |-> StrV(MyWiFi), timestamp |-> IntV(1698115200),
     channel_bandwidth |-> StrV(Bw20), capabilities |-> StrV(<<"W", "P", "A", "2">>)]

ObjectText(d) == json_dumps(d, required_keys)

\* json.dumps of a list of two elements given as texts
ListText(a, b) == <<Tok("[")>> \o a \o <<Tok(",")>> \o b \o <<Tok("]")>>

Texts ==
    {ObjectText(ExamplePayload),
     \* a real bssid under the ssid of the example, and the converse
     ObjectText([Base(B1) EXCEPT !.ssid = StrV(MyWiFi)]),
     ObjectText([Base(B1) EXCEPT !.bssid = StrV(<<" ">> \o ExampleMac \o <<"\n">>)]),
     ObjectText(Base(B1)),
     TestText,
     \* the frequencies that build_network lets through
     ObjectText([Base(B1) EXCEPT !.frequency = Half]),
     ObjectText([Base(B1) EXCEPT !.frequency = IntV(0)]),
     ObjectText([Base(B1) EXCEPT !.frequency = BoolV(TRUE)]),
     ObjectText([Base(B1) EXCEPT !.rssi = IntV(5)]),
     ObjectText([Base(B1) EXCEPT !.bssid = None]),
     ListText(ObjectText(Base(B1)), <<Tok("["), ValTok(StrV(<<"x">>)), Tok("]")>>),
     ListText(<<ValTok(IntV(5))>>, ObjectText(Base(B2))),
     ListText(ObjectText(Base(B1)), ObjectText(ExamplePayload)),
     ListText(ObjectText(Base(B1)), ObjectText([Base(B2) EXCEPT !.frequency = Half])),
     ListText(<<ValTok(None)>>, <<Tok("NaN")>>),
     <<Tok("["), Tok("]")>>,
     <<ValTok(IntV(5))>>,
     <<Tok("NaN")>>,
     <<Tok("{"), Tok("}")>>,
     <<Tok("word")>>,
     <<>>}

PavilionTexts ==
    {<<"5">>, <<" ", "1", "2", "\n">>, <<"0">>, <<"n", "o", "n", "e">>, <<"-", "3">>,
     <<"a", "b", "c">>, <<>>}

PasswordTexts == {<<"s", "e", "c", "r", "e", "t">>, <<"0">>, <<"n", "o", "n", "e">>, <<>>}

\* the bssid a context holds: a str, or the True that save_network returned
HeldKeys == {StrV(B1), StrV(B2), BoolV(TRUE)}

Contexts ==
    {Chat(NoState, <<>>, <<>>)}
    \cup {Chat("waiting_for_pavilion", [bssid |-> k], <<>>) : k \in HeldKeys}
    \cup {Chat("waiting_for_password", [bssid |-> k, pavilion |-> IntV(5)], <<>>) :
             k \in HeldKeys}

InitBot ==
    /\ table = <<>>
    /\ self_data = None
    /\ chat \in Contexts
    /\ sessions = NoSessions
    /\ csv = <<>>
    /\ dbrows = <<>>
    /\ columns = Columns
    /\ op = Call("init", <<>>, NoData, Result("none", "none"), <<>>)

\* the handler h answered the message text; msg keeps the state the chat was
\* in when the handler was called
Handle(name, text, h) ==
    /\ table' = h.table
    /\ chat' = h.chat
    /\ UNCHANGED <<self_data, sessions, columns, dbrows, csv>>
    /\ op' = Call(name, <<>>, text, Result(h.exc, chat.state), <<>>)

\* rows that another caller of WiFiDB stored
SeedBot ==
    \E data \in {Odd(B1), Base(B2)} :
        LET r == create(table, data)
        IN  /\ r.res.ret = "True"
            /\ Len(r.table) <= MaxRows
            /\ table' = r.table
            /\ UNCHANGED <<self_data, chat, sessions, columns, dbrows, csv>>
            /\ op' = Call("create", <<>>, data, r.res, <<>>)

\* @bot_router.message() is registered before the handlers of the two
\* states, so a text reaches it in every state
HandleText ==
    \E text \in Texts : Handle("handle_text_or_file", text, handle_text_or_file(table, chat, text))

HandleJsonFile ==
    \E content \in Texts :
        Handle("_process_json_file_content", content,
               process_json_file_content(table, chat, content))

CmdStart == Handle("cmd_start", <<>>, cmd_start(table, chat))

NewEntry == Handle("new_entry_prompt", <<>>, new_entry_prompt(table, chat))

ProcessNewEntry ==
    \E text \in Texts : Handle("process_new_entry", text, process_new_entry(table, chat, text))

ProcessPavilion ==
    /\ chat.state = "waiting_for_pavilion"
    /\ \E text \in PavilionTexts :
          Handle("process_pavilion", text, process_pavilion(table, chat, text))

ProcessPassword ==
    /\ chat.state = "waiting_for_password"
    /\ \E text \in PasswordTexts :
          Handle("process_password", text, process_password(table, chat, text))

NextBot ==
    \/ SeedBot
    \/ HandleText
    \/ HandleJsonFile
    \/ CmdStart
    \/ NewEntry
    \/ ProcessNewEntry
    \/ ProcessPavilion
    \/ ProcessPassword

SpecBot == InitBot /\ [][NextBot]_vars

\* the object carries the bssid or the ssid of the documentation example
MatchesExample(v) ==
    /\ v.t = "dict"
    /\ \/ "bssid" \in DOMAIN v.d /\ v.d["bssid"] = StrV(ExampleMac)
       \/ "ssid" \in DOMAIN v.d /\ v.d["ssid"] = StrV(MyWiFi)

\* the text is JSON for an example object or for an array that holds one
ExampleText(toks) ==
    /\ json_loads(toks).ok
    /\ LET v == json_loads(toks).val
       IN  \/ MatchesExample(v)
           \/ v.t = "list" /\ \E i \in 1..Len(v.l) : MatchesExample(v.l[i])

Ingestion(call) == call.name \in {"handle_text_or_file", "_process_json_file_content"}

Results(answers) == SelectSeq(answers, LAMBDA a : a.tag = "result")

\* an element that is a record of the seven required fields that checker
\* accepts
ValidRecord(e) == e.t = "dict" /\ DOMAIN e.d = RequiredCols /\ checker(e.d).ok

\* C14: a text that is a non-empty JSON array without the example is
\* ingested in one pass: one final answer reports the counts, succeeded +
\* failed = total = the length of the array, every element that is not an
\* object is among the failures, and every valid record of the array is
\* stored afterwards, also one that follows an element that is not an object.
C14_Claim ==
    [][(/\ op'.name \in {"handle_text_or_file", "_process_json_file_content",
                         "process_new_entry"}
        /\ json_loads(op'.data).ok
        /\ json_loads(op'.data).val.t = "list"
        /\ Len(json_loads(op'.data).val.l) > 0
        /\ ~ExampleText(op'.data)) =>
          LET records == json_loads(op'.data).val.l
              results == Results(chat'.answers)
          IN  /\ Len(results) = 1
              /\ results[1].total = Len(records)
              /\ results[1].success + results[1].errors = results[1].total
              /\ results[1].errors >=
                    Cardinality({i \in 1..Len(records) : records[i].t # "dict"})
              /\ \A i \in 1..Len(records) :
                    ValidRecord(records[i]) => Stored(table', records[i].d["bssid"])]_vars

\* C15: the ingestion of a text that is one valid record whose bssid is not
\* stored succeeds: the record is stored, the value passed on is its bssid,
\* and the chat enters the enrichment flow holding exactly that bssid.
C15_Claim ==
    [][(/\ Ingestion(op')
        /\ json_loads(op'.data).ok
        /\ ValidRecord(json_loads(op'.data).val)
        /\ ~ExampleText(op'.data)
        /\ chat.state = NoState
        /\ ~Stored(table, json_loads(op'.data).val.d["bssid"])) =>
          LET bssid == json_loads(op'.data).val.d["bssid"]
          IN  /\ Stored(table', bssid)
              /\ chat'.state = "waiting_for_pavilion"
              /\ "bssid" \in DOMAIN chat'.data
              /\ chat'.data["bssid"] = bssid]_vars

\* the texts that stand for no pavilion
NoPavilion == {<<"0">>, <<"n", "o", "n", "e">>}

\* C16: in waiting_for_pavilion a text that is an integer literal, or "0" or
\* "none", moves the chat to waiting_for_password holding that pavilion, or
\* none; every other text leaves the chat in waiting_for_pavilion with the
\* data it held.
C16_Claim ==
    [][op'.name = "process_pavilion" =>
          IF op'.data \in NoPavilion
          THEN /\ chat'.state = "waiting_for_password"
               /\ chat'.data["bssid"] = chat.data["bssid"]
               /\ Get(chat'.data, "pavilion") = None
          ELSE IF IsIntLiteral(op'.data)
          THEN /\ chat'.state = "waiting_for_password"
               /\ chat'.data["bssid"] = chat.data["bssid"]
               /\ Get(chat'.data, "pavilion") = StrToInt(op'.data)
          ELSE IF ~IsIntLiteral(Strip(op'.data))
          THEN chat'.state = "waiting_for_pavilion" /\ chat'.data = chat.data
          ELSE TRUE]_vars

\* the texts that stand for no password
NoPassword == {<<"0">>, <<"n", "o", "n", "e">>, <<>>}

\* C17: in waiting_for_password, when the row of the held bssid is stored, the
\* receipt of a text sets password of that row to the text, or to null for
\* "0", "none" and the empty text, sets pavilion_number to the held pavilion,
\* and leaves every other column of the row and every other row as they were.
C17_Claim ==
    [][(/\ op'.name = "process_password"
        /\ IsStr(chat.data["bssid"])
        /\ Stored(table, chat.data["bssid"])) =>
          /\ Len(table') = Len(table)
          /\ \A i \in 1..Len(table) :
                IF table[i]["bssid"] = chat.data["bssid"]
                THEN /\ table'[i]["password"] =
                           (IF Strip(op'.data) \in NoPassword THEN None
                            ELSE StrV(Strip(op'.data)))
                     /\ table'[i]["pavilion_number"] = Get(chat.data, "pavilion")
                     /\ \A c \in Columns \ {"password", "pavilion_number"} :
                           table'[i][c] = table[i][c]
                ELSE table'[i] = table[i]]_vars

\* C18: every text received in waiting_for_password ends the flow: the
\* handler returns, and the chat is without state and without data afterwards,
\* whether or not the row of the held bssid is stored.
C18_Claim ==
    [][op'.name = "process_password" =>
          /\ op'.ret = "none"
          /\ chat'.state = NoState
          /\ chat'.data = <<>>]_vars

\* C19: the /start command and the new-entry action clear the state and the
\* data of the chat, whatever state it is in, and leave the table as it was.
C19_CancelClears ==
    [][op'.name \in {"cmd_start", "new_entry_prompt"} =>
          /\ op'.ret = "none"
          /\ chat'.state = NoState
          /\ chat'.data = <<>>
          /\ table' = table]_vars

\* /start arrived in a chat that was waiting for the password, two rows being
\* stored
C19_Witness ==
    /\ op.name = "cmd_start"
    /\ op.msg = "waiting_for_password"
    /\ chat.state = NoState
    /\ Len(table) = 2

----------------------------------------------------------------------------
(* WiFiDB.create called by several callers at once.  Every call opens a    *)
(* connection of its own.  SQLite admits one write transaction at a time:  *)
(* the INSERT of a second connection waits, for the timeout of             *)
(* sqlite3.connect, until the first one has committed; the model lets it    *)
(* wait and does not let the timeout expire.                                *)

\* another connection holds the write lock: it has inserted and not committed
Busy_Never(sess, s) == FALSE

Busy(sess, s) == \E t \in Sessions \ {s} : sess[t].pc = "inserted"

ConcInputs == {Base(B1), Alt(B1), Base(B2), Without(Base(B1), "ssid")}

\* create(data) is called
Begin(s) ==
    /\ sessions[s].pc = "idle"
    /\ \E data \in ConcInputs :
          sessions' = [sessions EXCEPT ![s] =
                          [pc |-> "called", data |-> data,
                           fresh |-> ~Stored(table, data["bssid"]),
                           ret |-> "none", msg |-> "none"]]
    /\ UNCHANGED <<table, self_data, op, chat, columns, dbrows, csv>>

\* validation_result = self.checker(data)
Validate(s) ==
    /\ sessions[s].pc = "called"
    /\ LET v == checker(sessions[s].data)
       IN  sessions' = [sessions EXCEPT ![s] =
               IF v.kind = "TypeError" THEN [@ EXCEPT !.pc = "done", !.ret = "TypeError"]
               ELSE IF ~v.ok
                   THEN [@ EXCEPT !.pc = "done", !.ret = "False", !.msg = "validation"]
               ELSE [@ EXCEPT !.pc = "validated"]]
    /\ UNCHANGED <<table, self_data, op, chat, columns, dbrows, csv>>

\* cursor.execute(INSERT ...): IntegrityError when the key is stored
Insert(s) ==
    /\ sessions[s].pc = "validated"
    /\ ~Busy(sessions, s)
    /\ sessions' = [sessions EXCEPT ![s] =
           IF PrimaryKeyViolated(table, sessions[s].data["bssid"])
           THEN [@ EXCEPT !.pc = "done", !.ret = "False", !.msg = "conflict"]
           ELSE [@ EXCEPT !.pc = "inserted"]]
    /\ UNCHANGED <<table, self_data, op, chat, columns, dbrows, csv>>

\* conn.commit(); return True
Commit(s) ==
    /\ sessions[s].pc = "inserted"
    /\ table' = Append(table, InsertValues(sessions[s].data))
    /\ sessions' = [sessions EXCEPT ![s] = [@ EXCEPT !.pc = "done", !.ret = "True"]]
    /\ UNCHANGED <<self_data, op, chat, columns, dbrows, csv>>

\* the caller has the result and is free for a next call
Return(s) ==
    /\ sessions[s].pc = "done"
    /\ sessions' = [sessions EXCEPT ![s] = NoCall]
    /\ UNCHANGED <<table, self_data, op, chat, columns, dbrows, csv>>

NextConc ==
    \E s \in Sessions : Begin(s) \/ Validate(s) \/ Insert(s) \/ Commit(s) \/ Return(s)

SpecConc == Init /\ [][NextConc]_vars

\* the calls of s and t ran at the same time for one bssid that was not
\* stored when either began, with records that checker accepts, and both have
\* their result
Raced(s, t) ==
    /\ s # t
    /\ sessions[s].pc = "done" /\ sessions[t].pc = "done"
    /\ sessions[s].fresh /\ sessions[t].fresh
    /\ checker(sessions[s].data).ok /\ checker(sessions[t].data).ok
    /\ sessions[s].data["bssid"] = sessions[t].data["bssid"]

----------------------------------------------------------------------------
(* WiFiDB.init_db: the schema of the table on every open *)

\* new_columns of init_db, in the order of the dict
new_columns == optional_string_fields \o optional_int_fields

\* ALTER TABLE wifi_networks ADD COLUMN col: the rows hold NULL in it
AddColumn(db, col) ==
    [columns |-> db.columns \cup {col},
     table |-> [i \in 1..Len(db.table) |-> With(db.table[i], col, None)]]

\* the for loop of init_db over new_columns from column i on; found is the
\* list that PRAGMA table_info gave before the loop
RECURSIVE AddMissing(_, _, _)
AddMissing(db, found, i) ==
    IF i > Len(new_columns) THEN db
    ELSE IF new_columns[i] \notin found
        THEN Let(AddColumn(db, new_columns[i]), LAMBDA next : AddMissing(next, found, i + 1))
    ELSE AddMissing(db, found, i + 1)

\* an open that drops the table and creates it again
init_db_Recreate(cols, tbl) == [columns |-> Columns, table |-> <<>>]

\* init_db(): CREATE TABLE IF NOT EXISTS, then the columns that are missing
init_db(cols, tbl) ==
    Let(IF cols = {} THEN [columns |-> Columns, table |-> <<>>]
        ELSE [columns |-> cols, table |-> tbl],
        LAMBDA db : AddMissing(db, db.columns, 1))

\* the row that an older version of the program stored for data
OldRow(cols, data) == [c \in cols |-> InsertValues(data)[c]]

\* the tables that the older versions left: none, or a table of the required
\* columns and some of the optional ones
InitMigrate ==
    /\ \E optional \in SUBSET OptionalCols, n \in 0..MaxRows :
          \/ columns = {} /\ table = <<>>
          \/ /\ columns = RequiredCols \cup optional
             /\ table = SubSeq(<<OldRow(columns, Alt(B1)), OldRow(columns, Odd(B2)),
                                 OldRow(columns, Alt(B1nl))>>, 1, IF n > 3 THEN 3 ELSE n)
    /\ self_data = None
    /\ chat = Chat(NoState, <<>>, <<>>)
    /\ sessions = NoSessions
    /\ csv = <<>>
    /\ dbrows = <<>>
    /\ op = Call("init", <<>>, NoData, Result("none", "none"), <<>>)

\* WiFiDB(db_path): op keeps the columns and the rows that the open found
Open ==
    LET r == init_db(columns, table)
    IN  /\ columns' = r.columns
        /\ table' = r.table
        /\ UNCHANGED <<self_data, chat, sessions, dbrows, csv>>
        /\ op' = Call("init_db", <<>>, columns, Result("none", "none"), table)

\* the calls of an instance, which its constructor has opened
Opened == op.name # "init" /\ (Create \/ Delete)

NextMigrate == Open \/ Opened

SpecMigrate == InitMigrate /\ [][NextMigrate]_vars

\* C21: an open of a table that an older, narrower schema created adds every
\* optional column that is missing and keeps every row with its values, and an
\* open more changes neither the columns nor the rows
C21_Migration ==
    [][(op'.name = "init_db" /\ columns # {}) =>
          /\ columns' = columns \cup OptionalCols
          /\ Len(table') = Len(table)
          /\ \A i \in 1..Len(table) :
                /\ \A c \in columns : table'[i][c] = table[i][c]
                /\ \A c \in columns' \ columns : table'[i][c] = None
          /\ init_db(columns', table') = [columns |-> columns', table |-> table']]_vars

\* an open found rows under a narrower schema
C21_Witness ==
    /\ op.name = "init_db"
    /\ op.data # {}
    /\ op.data # Columns
    /\ Len(op.rows) > 0
    /\ columns = Columns
    /\ Len(table) = Len(op.rows)

----------------------------------------------------------------------------
(* database.py: Database, the records of /add_data.  A Python dict keeps   *)
(* the order in which its keys were inserted: an object is its keys in     *)
(* that order and its values.                                               *)

Obj(keys, d) == [keys |-> keys, d |-> d]

\* the keys of the objects, in the order of sorted()
SortedKeys == <<"name", "note", "pavilion">>

\* sorted(obj)
Sorted(keys) == SelectSeq(SortedKeys, LAMBDA k : k \in Range(keys))

\* _normalize_and_hash(obj): the digest is modelled by the text it is taken
\* of, SHA-256 having no known collisions
normalize_and_hash(obj) == json_dumps(obj.d, Sorted(obj.keys))

\* sqlite3 binds None, int, float and str, and a bool as an int; any other
\* type raises ProgrammingError
Bindable(x) == x.t \in {"none", "int", "bool", "float", "str"}

\* the largest id ever given, AUTOINCREMENT
RECURSIVE MaxId(_)
MaxId(rows) == IF Len(rows) = 0 THEN 0
               ELSE Let(MaxId(Tail(rows)), LAMBDA m : IF rows[1].id > m THEN rows[1].id ELSE m)

\* add_record(obj): the rows afterwards and the row id returned, 0 for None
add_record(rows, obj) ==
    Let(normalize_and_hash(obj), LAMBDA data_hash :
    Let(Get(obj.d, "pavilion"), LAMBDA pavilion :
        IF ~Bindable(pavilion)
            THEN [dbrows |-> rows, rowid |-> 0, exc |-> "ProgrammingError"]
        ELSE IF \E i \in 1..Len(rows) : rows[i].data_hash = data_hash
            THEN [dbrows |-> rows, rowid |-> 0, exc |-> "none"]
        ELSE [dbrows |-> Append(rows, [id |-> MaxId(rows) + 1,
                                        pavilion |-> BindValue(pavilion),
                                        data |-> json_dumps(obj.d, obj.keys),
                                        data_hash |-> data_hash]),
              rowid |-> MaxId(rows) + 1, exc |-> "none"]))

\* all_records(): SELECT * FROM records ORDER BY id; the ids rise along rows
all_records(rows) ==
    [i \in 1..Len(rows) |->
        [id |-> rows[i].id, pavilion |-> rows[i].pavilion,
         data |-> json_loads(rows[i].data).val]]

MaxRecords == 3

ObjA == Obj(<<"pavilion", "name">>, [pavilion |-> StrV(<<"P", "2">>), name |-> StrV(<<"D", "u", "p">>)])

\* ObjA with its keys in the other order
ObjA2 == Obj(<<"name", "pavilion">>, ObjA.d)

Objects ==
    {ObjA, ObjA2,
     Obj(<<"name">>, [name |-> StrV(<<"D", "u", "p">>)]),
     Obj(<<"pavilion">>, [pavilion |-> IntV(12)]),
     Obj(<<"pavilion">>, [pavilion |-> StrV(<<"1", "2">>)]),
     Obj(<<"note", "pavilion">>, [pavilion |-> None, note |-> BoolV(TRUE)]),
     Obj(<<"pavilion", "note">>, [pavilion |-> None, note |-> BoolV(TRUE)]),
     Obj(<<>>, <<>>),
     \* a pavilion that is a list, and one that is an object
     Obj(<<"pavilion">>, [pavilion |-> ListV(<<StrV(<<"A">>), StrV(<<"B">>)>>)]),
     Obj(<<"name", "pavilion">>,
         [name |-> StrV(<<"D", "u", "p">>), pavilion |-> DictV([name |-> IntV(1)])])}

\* db.add_record(obj) on a connected Database
AddRecord ==
    \E obj \in Objects :
        LET r == add_record(dbrows, obj)
        IN  /\ Len(r.dbrows) <= MaxRecords
            /\ dbrows' = r.dbrows
            /\ UNCHANGED <<table, self_data, chat, sessions, columns, csv>>
            /\ op' = Call("add_record", <<>>, obj, Result(r.exc, "none"), <<r.rowid>>)

\* list(db.all_records())
AllRecords ==
    /\ UNCHANGED <<table, self_data, chat, sessions, columns, dbrows, csv>>
    /\ op' = Call("all_records", <<>>, NoData, Result("none", "none"), all_records(dbrows))

NextDedup == AddRecord \/ AllRecords

SpecDedup == Init /\ [][NextDedup]_vars

\* the objects that all_records yields
Yielded(rows) == [i \in 1..Len(rows) |-> all_records(rows)[i].data]

\* C22: add_record on an object that is stored, whatever the order of its
\* keys, returns None and changes nothing, and on any other object it adds
\* the object after the ones stored, so that all_records yields the first
\* occurrence of each object in first-seen order
C22_Claim ==
    [][op'.name = "add_record" =>
          LET obj == op'.data
          IN  IF \E i \in 1..Len(dbrows) : Yielded(dbrows)[i] = DictV(obj.d)
              THEN op'.rows = <<0>> /\ op'.ret = "none" /\ dbrows' = dbrows
              ELSE /\ Yielded(dbrows') = Append(Yielded(dbrows), DictV(obj.d))
                   /\ op'.rows # <<0>>
                   /\ op'.ret = "none"]_vars

----------------------------------------------------------------------------
(* Controller.build_network and the ingestion of one object, on payloads   *)
(* that name the frequency and the bandwidth by their aliases, give the     *)
(* time in seconds or in milliseconds, and carry keys that are no required  *)
(* field.                                                                   *)

\* the dict d after d.update(e)
Merge(d, e) == [k \in DOMAIN d \cup DOMAIN e |-> IF k \in DOMAIN e THEN e[k] ELSE d[k]]

\* 10**12
Tera == IntQR(1000000000, 0)

TimestampForms ==
    {[timestamp |-> IntQR(1707708416, 123)],
     [timestamp |-> Tera],
     [timestamp |-> IntQR(1000000000, 1)],
     [timestamp |-> IntQR(999999999, 999)],
     [timestamp |-> IntV(1707708416)],
     [timestamp |-> IntV(0)],
     [timestamp |-> BoolV(TRUE)],
     [timestamp |-> StrV(<<"1", "7", "0", "7">>)],
     <<>>}

FrequencyForms ==
    {[frequency |-> IntV(0)],
     [frequency |-> IntV(2412)],
     [frequency_mhz |-> IntV(0)],
     [frequency_mhz |-> IntV(5180)],
     [frequency |-> IntV(0), frequency_mhz |-> IntV(5180)],
     [frequency |-> IntV(2412), frequency_mhz |-> IntV(5180)],
     <<>>}

BandwidthForms ==
    {[channel_bandwidth |-> StrV(Bw20)],
     [channel_bandwidth_mhz |-> IntV(80)],
     [channel_bandwidth_mhz |-> StrV(<<"4", "0">>)],
     [channel_bandwidth_mhz |-> StrV(<<"w", "i", "d", "e">>)],
     [channel_bandwidth |-> StrV(Bw20), channel_bandwidth_mhz |-> IntV(80)],
     <<>>}

\* the rest of a scan
ScanBase ==
    [bssid |-> StrV(B1), rssi |-> IntV(-50), ssid |-> StrV(<<"N", "e", "t">>),
     capabilities |-> StrV(<<"W", "P", "A", "2">>)]

Scan(ts, f, b, e) == Merge(Merge(Merge(Merge(ScanBase, ts), f), b), e)

Extras == [password |-> StrV(<<"p", "w">>), floor |-> IntV(2), unknown_key |-> IntV(1)]

\* every form of the timestamp, every pair of forms of the frequency and of
\* the bandwidth, and every form of the frequency with keys that are no
\* required field
Scans ==
    {Scan(ts, [frequency |-> IntV(0)], [channel_bandwidth |-> StrV(Bw20)], <<>>) :
        ts \in TimestampForms}
    \cup {Scan([timestamp |-> IntV(1707708416)], f, b, <<>>) :
             f \in FrequencyForms, b \in BandwidthForms}
    \cup {Scan([timestamp |-> IntQR(1707708416, 123)], f, [channel_bandwidth |-> StrV(Bw20)],
                Extras) : f \in FrequencyForms}

\* the scans handed to process_payload_and_save
PayloadScans ==
    {Scan([timestamp |-> IntV(1707708416)], f, b, e) :
        f \in {[frequency |-> IntV(2412)], [frequency_mhz |-> IntV(5180)],
               [frequency |-> IntV(2412), frequency_mhz |-> IntV(5180)],
               [frequency_mhz |-> IntV(0)]},
        b \in {[channel_bandwidth_mhz |-> IntV(80)]},
        e \in {<<>>, Extras}}
    \cup {Scan([timestamp |-> IntQR(1707708416, 123)], [frequency |-> IntV(2412)],
               [channel_bandwidth |-> StrV(Bw20)], Extras)}

\* controller.build_network(data): rows keeps the WiFiNetwork it returned
BuildNetwork ==
    \E data \in Scans :
        LET r == build_network(DictV(data))
        IN  /\ UNCHANGED <<table, self_data, chat, sessions, columns, dbrows, csv>>
            /\ op' = Call("build_network", <<>>, data, Result(r.exc, "none"),
                          IF r.exc = "none" THEN <<r.val>> ELSE <<>>)

\* controller.process_payload_and_save(data) for a dict
IngestDict ==
    \E data \in PayloadScans :
        LET r == process_payload_and_save(table, self_data, DictPayload(data))
        IN  /\ table' = r.table
            /\ self_data' = r.data
            /\ UNCHANGED <<chat, sessions, columns, dbrows, csv>>
            /\ op' = Call("process_payload_and_save", <<>>, data, r.res, <<>>)

\* data_processor._process_single_wifi_record(data)
DpSingle ==
    \E data \in Scans :
        LET r == dp_process_single_wifi_record(table, data)
        IN  /\ table' = r.table
            /\ UNCHANGED <<self_data, chat, sessions, columns, dbrows, csv>>
            /\ op' = Call("_process_single_wifi_record", <<>>, data,
                          Result(IF r.ret THEN "True" ELSE "False", "none"), <<>>)

\* records that miss a required key, hold None or the empty string under it,
\* or hold None under another key
PrepareInputs ==
    {Without(Base(B1), k) : k \in RequiredCols}
    \cup {With(Base(B1), k, None) : k \in RequiredCols}
    \cup {With(Base(B1), k, StrV(<<>>)) : k \in RequiredCols}
    \cup {<<>>, Base(B1), With(Alt(B1), "password", None), With(Alt(B2), "gateway", StrV(<<>>)),
          [bssid |-> None, frequency |-> None, unknown_key |-> None]}

\* _prepare_wifi_data(data): rows keeps the dict it returned
Prepare ==
    \E data \in PrepareInputs :
        /\ UNCHANGED <<table, self_data, chat, sessions, columns, dbrows, csv>>
        /\ op' = Call("_prepare_wifi_data", <<>>, data, Result("none", "none"),
                      <<prepare_wifi_data(data)>>)

NextIngest == BuildNetwork \/ IngestDict \/ DpSingle \/ Prepare

SpecIngest == Init /\ [][NextIngest]_vars

\* t > 10**12 for an int t
Millis(t) == t.q > 1000000000 \/ (t.q = 1000000000 /\ t.r > 0)

\* C23: build_network gives the WiFiNetwork the timestamp of the payload
\* divided by 1000, rounded down, when that timestamp is an integer above
\* 10^12, and the timestamp itself when it is an integer up to 10^12; the
\* test of the timestamp (positive) is made on the converted value
C23_TimestampNormalized ==
    (/\ op.name = "build_network"
     /\ "timestamp" \in DOMAIN op.data
     /\ op.data["timestamp"].t = "int"
     /\ Len(op.rows) = 1) =>
        LET t == op.data["timestamp"]
        IN  /\ Millis(t) => op.rows[1]["timestamp"] = IntQR(t.q \div 1000, t.q % 1000)
            /\ ~Millis(t) => op.rows[1]["timestamp"] = t
            /\ IntLt(IntV(0), op.rows[1]["timestamp"])

\* build_network returned the network of a scan timed 1707708416123
C23_Witness ==
    /\ op.name = "build_network"
    /\ Len(op.rows) = 1
    /\ op.data["timestamp"] = IntQR(1707708416, 123)
    /\ op.rows[1]["timestamp"] = IntV(1707708416)

\* the scan names the frequency or the bandwidth by its alias
HasAlias(d) == "frequency_mhz" \in DOMAIN d \/ "channel_bandwidth_mhz" \in DOMAIN d

\* the record of the seven required fields that a scan stands for: the
\* canonical key when it is there and else its alias, the bandwidth as a
\* decimal string, the time in seconds
Canonical(d) ==
    [k \in RequiredCols |->
        CASE k = "frequency" ->
                IF "frequency" \in DOMAIN d THEN d["frequency"] ELSE Get(d, "frequency_mhz")
          [] k = "channel_bandwidth" ->
                IF "channel_bandwidth" \in DOMAIN d THEN d["channel_bandwidth"]
                ELSE IF Get(d, "channel_bandwidth_mhz").t = "int"
                    THEN StrV(IntToStr(d["channel_bandwidth_mhz"]))
                ELSE Get(d, "channel_bandwidth_mhz")
          [] k = "timestamp" ->
                IF Get(d, "timestamp").t = "int" /\ Millis(d["timestamp"])
                THEN IntQR(d["timestamp"].q \div 1000, d["timestamp"].q % 1000)
                ELSE Get(d, "timestamp")
          [] OTHER -> Get(d, k)]

\* C24: the ingestion of one object that names the frequency or the bandwidth
\* by its alias and is valid otherwise accepts it and stores the record with
\* the value of the alias in the canonical column, the bandwidth as a decimal
\* string; the canonical value is kept when both keys are there
C24_Claim ==
    [][(/\ op'.name \in {"process_payload_and_save", "_process_single_wifi_record"}
        /\ HasAlias(op'.data)
        /\ checker(Canonical(op'.data)).ok
        /\ ~Stored(table, op'.data["bssid"])) =>
          /\ op'.ret = "True"
          /\ \E i \in 1..Len(table') :
                /\ table'[i]["bssid"] = op'.data["bssid"]
                /\ table'[i]["frequency"] = Canonical(op'.data)["frequency"]
                /\ table'[i]["channel_bandwidth"] = Canonical(op'.data)["channel_bandwidth"]]_vars

Absent(d, k) == k \notin DOMAIN d \/ d[k] = None

\* C25: the record that _prepare_wifi_data returns holds the seven required
\* keys; frequency, rssi and timestamp are 0 where the input misses them or
\* holds None, ssid, channel_bandwidth and capabilities are the empty string
\* there, a bssid that is missing, None or empty is 00:00:00:00:00:00, and
\* every other key and value is that of the input
C25_Claim ==
    op.name = "_prepare_wifi_data" =>
        LET data == op.data
            prepared == op.rows[1]
        IN  /\ DOMAIN prepared = DOMAIN data \cup RequiredCols
            /\ \A k \in {"frequency", "rssi", "timestamp"} :
                  Absent(data, k) => prepared[k] = IntV(0)
            /\ \A k \in {"ssid", "channel_bandwidth", "capabilities"} :
                  Absent(data, k) => prepared[k] = StrV(<<>>)
            /\ (Absent(data, "bssid") \/ data["bssid"] = StrV(<<>>)) =>
                  prepared["bssid"] = StrV(ZeroMac)
            /\ \A k \in DOMAIN data :
                  (/\ ~(k \in RequiredCols /\ data[k] = None)
                   /\ ~(k = "bssid" /\ data[k] = StrV(<<>>))) => prepared[k] = data[k]

----------------------------------------------------------------------------
(* /add_data of src/bot/handlers.py.  csv holds the rows of table.csv below *)
(* the header line, dbrows the rows of a database that outlives the call.   *)

\* bool(x)
Truthy(x) ==
    CASE x.t = "none" -> FALSE
      [] x.t = "bool" -> x.b
      [] x.t = "int" -> x # IntV(0)
      [] x.t = "str" -> Len(x.v) > 0
      [] x.t = "list" -> Len(x.l) > 0
      [] x.t = "dict" -> DOMAIN x.d # {}
      [] OTHER -> TRUE

headers == <<"name", "address", "password", "note">>

\* the word that save_row writes for a value that is missing or falsy
\* (Russian for "absent", transliterated)
Otsutstvuet == StrV(<<"O", "t", "s", "u", "t", "s", "t", "v", "u", "e", "t">>)

\* storage.save_row(base, data): one more line of table.csv, with the text
\* csv.writer writes for each value
save_row(rows, data) ==
    Append(rows, [k \in Range(headers) |->
                     IF k \in DOMAIN data /\ Truthy(data[k]) THEN PyStr(data[k]).v
                     ELSE Otsutstvuet.v])

\* "".join(context.args): the message split at white space and joined again
\* loses the white space inside its strings too
join_args(toks) ==
    [i \in 1..Len(toks) |->
        IF toks[i].tok = "val" /\ toks[i].v.t = "str"
        THEN ValTok(StrV(SelectSeq(toks[i].v.v, LAMBDA c : c \notin WhiteSpace)))
        ELSE toks[i]]

\* the member names of an object text in the order of the text, which is the
\* order of the dict that json.loads builds (no payload repeats a name)
ObjectKeys(toks) ==
    LET names == SelectSeq(toks, LAMBDA tk : tk.tok = "key")
    IN  [i \in 1..Len(names) |-> names[i].k]

\* Database(): the default path is ":memory:", so the database of a call is
\* empty when it is connected and is gone when it is closed
MemoryDb == <<>>

\* add_data_command for the text after the command; available says that
\* "from database import Database" has succeeded.  Yields the lines of
\* table.csv afterwards, the reply and saved_id (0 for None)
add_data_command(csvrows, args, available) ==
    Let(join_args(args), LAMBDA payload :
        IF Len(payload) = 0 THEN [csv |-> csvrows, reply |-> "send_json", saved_id |-> 0]
        ELSE Let(json_loads(payload), LAMBDA parsed :
            IF ~parsed.ok THEN [csv |-> csvrows, reply |-> "json_error", saved_id |-> 0]
            ELSE IF parsed.val.t # "dict"
                THEN [csv |-> csvrows, reply |-> "not_object", saved_id |-> 0]
            ELSE Let(Obj(ObjectKeys(payload), parsed.val.d), LAMBDA obj :
                 Let(IF available THEN add_record(MemoryDb, obj)
                     ELSE [dbrows |-> MemoryDb, rowid |-> 0, exc |-> "none"], LAMBDA r :
                    \* an exception of add_record leaves saved_id None
                    IF r.exc # "none" \/ r.rowid = 0
                    THEN [csv |-> save_row(csvrows, obj.d), reply |-> "saved_csv",
                          saved_id |-> 0]
                    ELSE [csv |-> csvrows, reply |-> "saved_id", saved_id |-> r.rowid]))))

MaxMessages == 3

\* the texts sent after /add_data: nothing, no JSON, a list, and objects
ArgTexts ==
    {<<>>,
     <<Tok("{"), KeyTok("name")>>,
     <<Tok("["), ValTok(IntV(1)), Tok("]")>>,
     json_dumps(ObjA.d, ObjA.keys),
     json_dumps(ObjA2.d, ObjA2.keys),
     json_dumps([name |-> StrV(<<"D", " ", "p">>), note |-> BoolV(TRUE)], <<"name", "note">>),
     json_dumps([name |-> StrV(<<>>), password |-> IntV(12)], <<"name", "password">>),
     json_dumps([pavilion |-> ListV(<<StrV(<<"A">>), StrV(<<"B">>)>>)], <<"pavilion">>)}

\* the bot receives /add_data; the import of Database has one outcome in a
\* process, kept in op.msg
AddData ==
    \E args \in ArgTexts, available \in BOOLEAN :
        LET r == add_data_command(csv, args, available)
        IN  /\ Len(chat.answers) < MaxMessages
            /\ op.name = "add_data_command" => available = (op.msg = "Database")
            /\ csv' = r.csv
            /\ dbrows' = MemoryDb
            /\ chat' = [chat EXCEPT !.answers = Append(@, Answer(r.reply))]
            /\ UNCHANGED <<table, self_data, sessions, columns>>
            /\ op' = Call("add_data_command", <<>>, args,
                          Result(r.reply, IF available THEN "Database" ELSE "None"),
                          <<r.saved_id>>)


NextAddData == AddData

SpecAddData == Init /\ [][NextAddData]_vars

\* the bot has answered that the data are saved
Saved(o) == o.name = "add_data_command" /\ o.ret \in {"saved_id", "saved_csv"}

\* C27: an object that /add_data answers as saved is in a store, the records
\* of the database or table.csv, and sending the same text again right after
\* it writes to neither store
C27_Claim ==
    [][Saved(op') =>
          LET obj == json_loads(join_args(op'.data)).val.d
          IN  IF Saved(op) /\ op.data = op'.data
              THEN dbrows' = dbrows /\ csv' = csv
              ELSE \/ \E i \in 1..Len(dbrows') : Yielded(dbrows')[i] = obj
                   \/ save_row(<<>>, obj)[1] \in Range(csv')]_vars

----------------------------------------------------------------------------
(* The rows of the record store and the constraints of checker *)

\* the constraints of the validator on the values of a row
RowValid(row) ==
    /\ IsStr(row["bssid"]) /\ MacFormat(row["bssid"].v)
    /\ IsInt(row["frequency"]) /\ IntLt(IntV(0), row["frequency"])
    /\ IsInt(row["rssi"]) /\ IntLe(IntV(-100), row["rssi"]) /\ IntLe(row["rssi"], IntV(0))
    /\ IsInt(row["timestamp"]) /\ IntLe(IntV(0), row["timestamp"])
    /\ IsStr(row["ssid"]) /\ Len(row["ssid"].v) > 0
    /\ IsStr(row["channel_bandwidth"])
    /\ row["channel_bandwidth"].v \in
           {<<"2", "0">>, <<"4", "0">>, <<"8", "0">>, <<"1", "6", "0">>}

\* C28: after any sequence of create, update and delete every row of the
\* table has a bssid of the form XX:XX:XX:XX:XX:XX, frequency > 0,
\* -100 <= rssi <= 0, timestamp >= 0, a ssid that is not empty and a
\* channel_bandwidth among "20", "40", "80", "160"
C28_Claim == \A i \in 1..Len(table) : RowValid(table[i])

----------------------------------------------------------------------------
(* WiFiDB.update and WiFiDB.delete called by several callers at once.      *)
(* update reads the row through a connection of its own (read) and then    *)
(* opens a second one for the UPDATE; delete opens one for the DELETE.  A   *)
(* statement that writes takes the write lock of the database until its     *)
(* commit.  A caller in a call is a record of the position in the code and  *)
(* the local variables: the arguments and cursor.rowcount.                  *)

\* another connection has written and not committed
WriteLocked(sess, s) == \E t \in Sessions \ {s} : sess[t].pc \in {"updated", "deleted"}

\* an UPDATE that inserts the row when no row has the key
ExecuteUpdate_Upsert(tbl, bssid, data) ==
    IF Matches(tbl, bssid) = {}
    THEN Append(tbl, [InsertValues(data) EXCEPT !["bssid"] = StrV(bssid)])
    ELSE [i \in 1..Len(tbl) |->
             IF i \in Matches(tbl, bssid) THEN UpdateValues(tbl[i], data) ELSE tbl[i]]

\* UPDATE wifi_networks SET ... WHERE bssid = ?
ExecuteUpdate(tbl, bssid, data) ==
    [i \in 1..Len(tbl) |->
        IF i \in Matches(tbl, bssid) THEN UpdateValues(tbl[i], data) ELSE tbl[i]]

\* DELETE FROM wifi_networks WHERE bssid = ?
ExecuteDelete(tbl, bssid) == SelectSeq(tbl, LAMBDA row : row["bssid"] # StrV(bssid))

InCall(call, bssid, data) ==
    [pc |-> "called", call |-> call, bssid |-> bssid, data |-> data, rowcount |-> 0,
     fresh |-> FALSE, ret |-> "none", msg |-> "none"]

RaceKeys == {B1, B2, <<>>}

RaceRecords == {Alt(B1), Base(B2), Without(Base(B1), "ssid")}

\* update(bssid, data) is called
CallUpdate(s) ==
    /\ sessions[s].pc = "idle"
    /\ \E bssid \in RaceKeys, data \in RaceRecords :
          sessions' = [sessions EXCEPT ![s] = InCall("update", bssid, data)]
    /\ UNCHANGED <<table, self_data, op, chat, columns, dbrows, csv>>

\* validation_result = self.checker(data); existing = self.read(bssid)
CheckExisting(s) ==
    /\ sessions[s].pc = "called" /\ sessions[s].call = "update"
    /\ LET v == checker(sessions[s].data)
           existing == read(table, StrV(sessions[s].bssid))
       IN  sessions' = [sessions EXCEPT ![s] =
               IF v.kind = "TypeError" THEN [@ EXCEPT !.pc = "done", !.ret = "TypeError"]
               ELSE IF ~v.ok
                   THEN [@ EXCEPT !.pc = "done", !.ret = "False", !.msg = "validation"]
               ELSE IF Len(existing) = 0
                   THEN [@ EXCEPT !.pc = "done", !.ret = "False", !.msg = "not_found"]
               ELSE [@ EXCEPT !.pc = "checked"]]
    /\ UNCHANGED <<table, self_data, op, chat, columns, dbrows, csv>>

\* cursor.execute(UPDATE ...)
WriteUpdate(s) ==
    /\ sessions[s].pc = "checked"
    /\ ~WriteLocked(sessions, s)
    /\ sessions' = [sessions EXCEPT ![s] =
           [@ EXCEPT !.pc = "updated",
                     !.rowcount = Cardinality(Matches(table, sessions[s].bssid))]]
    /\ UNCHANGED <<table, self_data, op, chat, columns, dbrows, csv>>

\* conn.commit(); return cursor.rowcount > 0
CommitUpdate(s) ==
    /\ sessions[s].pc = "updated"
    /\ table' = ExecuteUpdate(table, sessions[s].bssid, sessions[s].data)
    /\ sessions' = [sessions EXCEPT ![s] =
           [@ EXCEPT !.pc = "done",
                     !.ret = IF sessions[s].rowcount > 0 THEN "True" ELSE "False"]]
    /\ UNCHANGED <<self_data, op, chat, columns, dbrows, csv>>

\* delete(bssid) is called
CallDelete(s) ==
    /\ sessions[s].pc = "idle"
    /\ \E bssid \in RaceKeys :
          sessions' = [sessions EXCEPT ![s] = InCall("delete", bssid, NoData)]
    /\ UNCHANGED <<table, self_data, op, chat, columns, dbrows, csv>>

\* cursor.execute(DELETE ...)
WriteDelete(s) ==
    /\ sessions[s].pc = "called" /\ sessions[s].call = "delete"
    /\ ~WriteLocked(sessions, s)
    /\ sessions' = [sessions EXCEPT ![s] =
           [@ EXCEPT !.pc = "deleted",
                     !.rowcount = Cardinality(Matches(table, sessions[s].bssid))]]
    /\ UNCHANGED <<table, self_data, op, chat, columns, dbrows, csv>>

\* conn.commit(); return cursor.rowcount > 0
CommitDelete(s) ==
    /\ sessions[s].pc = "deleted"
    /\ table' = ExecuteDelete(table, sessions[s].bssid)
    /\ sessions' = [sessions EXCEPT ![s] =
           [@ EXCEPT !.pc = "done",
                     !.ret = IF sessions[s].rowcount > 0 THEN "True" ELSE "False"]]
    /\ UNCHANGED <<self_data, op, chat, columns, dbrows, csv>>

\* create(data) by a caller outside Sessions; its INSERT waits for the lock
CreateRow ==
    /\ ~\E s \in Sessions : sessions[s].pc \in {"updated", "deleted"}
    /\ \E data \in {Base(B1), Base(B2)} :
          /\ Len(create(table, data).table) <= MaxRows
          /\ table' = create(table, data).table
    /\ UNCHANGED <<self_data, op, chat, sessions, columns, dbrows, csv>>

NextRace ==
    \/ CreateRow
    \/ \E s \in Sessions :
          \/ CallUpdate(s) \/ CheckExisting(s) \/ WriteUpdate(s) \/ CommitUpdate(s)
          \/ CallDelete(s) \/ WriteDelete(s) \/ CommitDelete(s)
          \/ Return(s)

SpecRace == Init /\ [][NextRace]_vars

\* the bssid values of the rows
StoredKeys(tbl) == {tbl[i]["bssid"] : i \in 1..Len(tbl)}

\* caller s is in a call of update
InUpdate(s) == sessions[s].pc # "idle" /\ sessions[s].call = "update"

\* C29: no step of an update adds a row to the table or takes one from it,
\* and an update that has found its row and writes when no row of its bssid
\* is stored any more returns False and leaves the table without that row
C29_UpdateNeverRecreates ==
    [][\A s \in Sessions :
          (InUpdate(s) /\ sessions'[s] # sessions[s]) =>
              /\ StoredKeys(table') = StoredKeys(table)
              /\ Len(table') = Len(table)
              /\ (/\ sessions[s].pc = "updated"
                  /\ ~Stored(table, StrV(sessions[s].bssid))) =>
                     /\ sessions'[s].pc = "done"
                     /\ sessions'[s].ret = "False"
                     /\ ~Stored(table', StrV(sessions[s].bssid))]_vars

\* update of caller 1 found the row of B1, delete of caller 2 removed it
\* before the UPDATE, and both have returned: update False, delete True
C29_Witness ==
    /\ sessions[1].pc = "done" /\ sessions[1].call = "update"
    /\ sessions[1].bssid = B1 /\ checker(sessions[1].data).ok
    /\ sessions[1].ret = "False" /\ sessions[1].msg = "none"
    /\ sessions[2].pc = "done" /\ sessions[2].call = "delete"
    /\ sessions[2].bssid = B1 /\ sessions[2].ret = "True"
    /\ ~Stored(table, StrV(B1))
    /\ Len(table) = 1

----------------------------------------------------------------------------
(* The /fill conversation of src/bot/handlers.py, for one user in one chat. *)
(* chat.state is the state of the ConversationHandler (NoState outside a    *)
(* conversation) and chat.data is context.user_data, which nothing clears.  *)

NAME == "NAME"

ADDRESS == "ADDRESS"

PASSWORD == "PASSWORD"

NOTE == "NOTE"

END == NoState

\* Application.builder().token(token).build(): no persistence is set
persistence == None

\* what a handler leaves: user_data, the state it returns, the lines of
\* table.csv, the reply and the exception it raises
Handler(data, state, rows, reply, exc) ==
    [data |-> data, state |-> state, csv |-> rows, reply |-> reply, exc |-> exc]

\* text.strip() or the word for a missing value
TextOrAbsent(text) == IF Len(Strip(text)) > 0 THEN StrV(Strip(text)) ELSE Otsutstvuet

fill_name(data, rows, text) ==
    Handler(With(data, "name", TextOrAbsent(text)), ADDRESS, rows, "ask_address", "none")

fill_address(data, rows, text) ==
    Handler(With(data, "address", TextOrAbsent(text)), PASSWORD, rows, "ask_password", "none")

fill_password(data, rows, text) ==
    Handler(With(data, "password", TextOrAbsent(text)), NOTE, rows, "ask_note", "none")

fill_note(data, rows, text) ==
    Let(With(data, "note", TextOrAbsent(text)), LAMBDA d :
        Handler(d, END, save_row(rows, d), "saved", "none"))

\* skip_field: its first statement calls get_conversation on the persistence
\* of the application, which is None; state is the state of the conversation,
\* kept when the handler raises
skip_field(data, state, rows) ==
    IF persistence = None THEN Handler(data, state, rows, "none", "AttributeError")
    ELSE IF "name" \notin DOMAIN data
        THEN Handler(With(data, "name", Otsutstvuet), ADDRESS, rows, "skipped_ask_address", "none")
    ELSE IF "address" \notin DOMAIN data
        THEN Handler(With(data, "address", Otsutstvuet), PASSWORD, rows,
                     "skipped_ask_password", "none")
    ELSE IF "password" \notin DOMAIN data
        THEN Handler(With(data, "password", Otsutstvuet), NOTE, rows, "skipped_ask_note", "none")
    ELSE Let(With(data, "note", Otsutstvuet), LAMBDA d :
             Handler(d, END, save_row(rows, d), "saved", "none"))

MaxSaved == 2

\* the texts a user sends: a word and a blank text
FillTexts == {<<"a", " ">>, <<" ">>}

\* a handler of the conversation has run for the message text
Dispatch(name, text, h) ==
    /\ Len(h.csv) <= MaxSaved
    /\ chat' = [chat EXCEPT !.state = h.state, !.data = h.data]
    /\ csv' = h.csv
    /\ UNCHANGED <<table, self_data, sessions, columns, dbrows>>
    /\ op' = Call(name, <<>>, text, Result(h.exc, h.reply), <<>>)

\* /fill outside a conversation
FillStart ==
    /\ chat.state = NoState
    /\ Dispatch("fill_start", <<>>, Handler(chat.data, NAME, csv, "ask_name", "none"))

FillName ==
    /\ chat.state = NAME
    /\ \E text \in FillTexts : Dispatch("fill_name", text, fill_name(chat.data, csv, text))

FillAddress ==
    /\ chat.state = ADDRESS
    /\ \E text \in FillTexts : Dispatch("fill_address", text, fill_address(chat.data, csv, text))

FillPassword ==
    /\ chat.state = PASSWORD
    /\ \E text \in FillTexts : Dispatch("fill_password", text, fill_password(chat.data, csv, text))

FillNote ==
    /\ chat.state = NOTE
    /\ \E text \in FillTexts : Dispatch("fill_note", text, fill_note(chat.data, csv, text))

\* /skip in a state of the conversation
SkipField ==
    /\ chat.state \in {NAME, ADDRESS, PASSWORD, NOTE}
    /\ Dispatch("skip_field", <<>>, skip_field(chat.data, chat.state, csv))

\* /cancel in a state of the conversation
Cancel ==
    /\ chat.state \in {NAME, ADDRESS, PASSWORD, NOTE}
    /\ Dispatch("cancel", <<>>, Handler(chat.data, END, csv, "cancelled", "none"))

NextFill ==
    FillStart \/ FillName \/ FillAddress \/ FillPassword \/ FillNote \/ SkipField \/ Cancel

SpecFill == Init /\ [][NextFill]_vars

\* the field asked for in a state, and the state after it
FieldOf(state) ==
    CASE state = NAME -> "name" [] state = ADDRESS -> "address"
      [] state = PASSWORD -> "password" [] state = NOTE -> "note"

StateAfter(state) ==
    CASE state = NAME -> ADDRESS [] state = ADDRESS -> PASSWORD
      [] state = PASSWORD -> NOTE [] state = NOTE -> END

\* C30: /skip in a state sets the field of that state to the word for a
\* missing value, leaves the other fields, and moves to the next state; from
\* NOTE it ends the conversation; a conversation that ends other than by
\* /cancel adds one row, that of user_data, to the table, and no other step
\* adds a row
C30_Claim ==
    [][/\ op'.name = "skip_field" =>
             /\ op'.ret = "none"
             /\ chat'.state = StateAfter(chat.state)
             /\ chat'.data = With(chat.data, FieldOf(chat.state), Otsutstvuet)
       /\ csv' = IF chat.state # END /\ chat'.state = END /\ op'.name # "cancel"
                   THEN save_row(csv, chat'.data)
                 ELSE csv]_vars

====
